---- MODULE Spec2Model ----
(***************************************************************************)
(* The Glossy flooding engine of arch/cpu/cc430/glossy.c as a state        *)
(* machine of one node: the flood state g, the caller's payload buffer,    *)
(* and the radio (rf1a) and timer (rtimer-ext) it drives.  One action per  *)
(* entry point of glossy.c: glossy_start, glossy_stop, the seven rf1a      *)
(* callbacks and the retransmission-timeout callback.                      *)
(***************************************************************************)
EXTENDS Integers, Sequences, FiniteSets, TLC

VARIABLES
  g,        \* glossy_state_t g (glossy.c:141-186)
  payload,  \* the caller's buffer g.payload points to
  rf,       \* radio driver: mode, reception / transmission in progress, TX FIFO
  rt,       \* the one-shot timer GLOSSY_CONF_RTIMER_ID
  irq,      \* interrupt enables
  cmds,     \* radio and timer commands issued by the last operation
  last,     \* the last operation that ran
  ret,      \* value returned by the last glossy_stop()
  flood,    \* per-flood observations: start arguments, payload writes
  net,      \* a network of such nodes (used under SpecNet only)
  twin      \* two such nodes with different pasts (used under SpecTwin only)

nodeVars == <<g, payload, rf, rt, irq, cmds, last, ret, flood>>
vars == <<g, payload, rf, rt, irq, cmds, last, ret, flood, net, twin>>

(***************************************************************************)
(* Bounds of the model                                                     *)
(***************************************************************************)
\* receptions / transmissions / timeout postponements the environment
\* delivers in one flood under Spec
MaxFloods == 1
MaxRx == 2
MaxTx == 2
\* the same caps under SpecLong: beyond the 8-bit counters' range
LongCap == 258
\* rx_tx_error events counted by the statistics
MaxErr == 1

(***************************************************************************)
(* Compile-time configuration (glossy.h, rf1a configuration)               *)
(***************************************************************************)
GLOSSY_CONF_PAYLOAD_LEN == 2
GLOSSY_MAX_HEADER_LEN == 2
GLOSSY_CONF_HEADER_BYTE == 128
GLOSSY_UNKNOWN_N_TX_MAX == 0
GLOSSY_UNKNOWN_PAYLOAD_LEN == 255
GLOSSY_CONF_ALWAYS_RELAY_CNT == FALSE
GLOSSY_CONF_RETRANSMISSION_TIMEOUT == TRUE
node_id == 1
\* radio timing, in ns
TAU1 == 4000
T2R == 100000
T_TX_BYTE == 32000
T_TX_OFFSET == 200000

SLOT_TIMEOUT_MIN == 2
TIMEOUT_EXTRA_TICKS == 70
T_SLOT_TOLERANCE == 10

GLOSSY_MAX_PACKET_LEN == GLOSSY_CONF_PAYLOAD_LEN + GLOSSY_MAX_HEADER_LEN

GLOSSY_HEADER_BYTE_MASK == 224
GLOSSY_HEADER_SYNC_MASK == 16
GLOSSY_HEADER_N_TX_MASK == 15

(***************************************************************************)
(* Fixed-width arithmetic                                                  *)
(***************************************************************************)
U8(x) == x % 256
U16(x) == x % 65536

\* x & mask for the three header masks (contiguous bit fields)
BitAnd(x, mask) ==
  CASE mask = GLOSSY_HEADER_BYTE_MASK -> (x \div 32) * 32
    [] mask = GLOSSY_HEADER_SYNC_MASK -> ((x \div 16) % 2) * 16
    [] mask = GLOSSY_HEADER_N_TX_MASK -> x % 16

GLOSSY_COMMON_HEADER == BitAnd(GLOSSY_CONF_HEADER_BYTE, GLOSSY_HEADER_BYTE_MASK)

\* variant of SET_PKT_TYPE: the sync flag is written as it is given, in bit 0
SET_PKT_TYPE_sync_low(with_sync, n_tx_max) ==
  GLOSSY_COMMON_HEADER
    + ((with_sync + BitAnd(n_tx_max, GLOSSY_HEADER_N_TX_MASK))
         - (IF with_sync % 2 = 1 /\ n_tx_max % 2 = 1 THEN 1 ELSE 0))

\* variant of SET_PKT_TYPE: an n_tx_max beyond the field is stored as 15
SET_PKT_TYPE_saturating(with_sync, n_tx_max) ==
  GLOSSY_COMMON_HEADER
    + (IF with_sync # 0 THEN GLOSSY_HEADER_SYNC_MASK ELSE 0)
    + (IF n_tx_max > GLOSSY_HEADER_N_TX_MASK THEN GLOSSY_HEADER_N_TX_MASK
       ELSE n_tx_max)

\* the three fields are disjoint, so | is +
SET_PKT_TYPE(with_sync, n_tx_max) ==
  GLOSSY_COMMON_HEADER
    + (IF with_sync # 0 THEN GLOSSY_HEADER_SYNC_MASK ELSE 0)
    + BitAnd(n_tx_max, GLOSSY_HEADER_N_TX_MASK)

GET_COMMON_HEADER(pkt_type) == BitAnd(pkt_type, GLOSSY_HEADER_BYTE_MASK)
GET_SYNC(pkt_type) == BitAnd(pkt_type, GLOSSY_HEADER_SYNC_MASK)
GET_N_TX_MAX(pkt_type) == BitAnd(pkt_type, GLOSSY_HEADER_N_TX_MASK)

\* the macros below read g.header, whatever their argument
IS_INITIATOR(w) == w.g.initiator_id = node_id
WITH_SYNC(w) == GET_SYNC(w.g.header.pkt_type) # 0
WITH_RELAY_CNT(w) == IF GLOSSY_CONF_ALWAYS_RELAY_CNT THEN TRUE ELSE WITH_SYNC(w)
GLOSSY_HEADER_LEN(w) == IF WITH_SYNC(w) \/ WITH_RELAY_CNT(w) THEN 2 ELSE 1

\* 3.25 MHz high-frequency clock: 13 ticks per 4000 ns
NS_TO_RTIMER_EXT_HF(ns) == (ns * 13) \div 4000

\* uint32_t values are held as their two's-complement reading (a value v
\* below 0 stands for 2^32 + v); unsigned comparison on that reading
U32Less(a, b) == IF (a < 0) = (b < 0) THEN a < b ELSE b < 0

estimate_T_slot(pkt_len) ==
  NS_TO_RTIMER_EXT_HF(T_TX_BYTE * (pkt_len + 3) + T_TX_OFFSET + T2R - TAU1)

(***************************************************************************)
(* The radio and the timer as glossy.c drives them.  A command is recorded *)
(* in cmds and has its effect on the driver's state.                       *)
(***************************************************************************)
Cmd(w, c) == [w EXCEPT !.cmds = Append(@, c)]

\* rf.asleep: the radio core sleeps.  rf.mode, rf.rx and rf.tx say what the
\* radio was doing; going to sleep leaves them, as the interrupt of what was
\* in progress may still be delivered (one late callback).
rf1a_go_to_idle(w) ==
  Cmd([w EXCEPT !.rf.asleep = FALSE, !.rf.mode = "idle", !.rf.rx = "none",
                !.rf.tx = "none", !.rf.air = << >>],
      "rf1a_go_to_idle")
rf1a_go_to_sleep(w) == Cmd([w EXCEPT !.rf.asleep = TRUE], "rf1a_go_to_sleep")
rf1a_start_tx(w) ==
  Cmd([w EXCEPT !.rf.asleep = FALSE, !.rf.mode = "tx", !.rf.rx = "none",
                !.rf.tx = "pre", !.rf.air = << >>],
      "rf1a_start_tx")
rf1a_start_rx(w) ==
  Cmd([w EXCEPT !.rf.asleep = FALSE, !.rf.mode = "rx", !.rf.rx = "none",
                !.rf.tx = "none", !.rf.air = << >>],
      "rf1a_start_rx")
rf1a_flush_rx_fifo(w) == Cmd(w, "rf1a_flush_rx_fifo")
rf1a_flush_tx_fifo(w) == Cmd([w EXCEPT !.rf.txfifo = << >>], "rf1a_flush_tx_fifo")
\* the first data_len bytes of data (bytes past the end of data are left out)
rf1a_write_to_tx_fifo(w, header, header_len, data, data_len) ==
  Cmd([w EXCEPT !.rf.txfifo =
         SubSeq(<<header.pkt_type, header.relay_cnt>>, 1, header_len)
           \o SubSeq(data, 1, IF data_len < Len(data) THEN data_len ELSE Len(data))],
      "rf1a_write_to_tx_fifo")
rf1a_set_header_len_rx(w, n) == [w EXCEPT !.rf.header_len_rx = n]
rf1a_is_busy(w) == (~ w.rf.asleep) /\ (w.rf.rx # "none" \/ w.rf.tx = "sending")

rtimer_ext_stop(w) == Cmd([w EXCEPT !.rt.pending = FALSE], "rtimer_ext_stop")
rtimer_ext_schedule(w, time) ==
  Cmd([w EXCEPT !.rt = [pending |-> TRUE, time |-> time]], "rtimer_ext_schedule")
rtimer_ext_update_enable(w) == [w EXCEPT !.irq.update = TRUE]
rtimer_ext_update_disable(w) == [w EXCEPT !.irq.update = FALSE]

(***************************************************************************)
(* Glossy helper functions.  A world w holds every variable; an operation  *)
(* maps a world to the world after it.                                     *)
(***************************************************************************)
World ==
  [g |-> g, payload |-> payload, rf |-> rf, rt |-> rt, irq |-> irq,
   cmds |-> << >>, ret |-> ret, flood |-> flood]

Take(data, n) == SubSeq(data, 1, IF n < Len(data) THEN n ELSE Len(data))
Drop(data, n) == SubSeq(data, n + 1, Len(data))

\* memcpy(dst, src, n) on the caller's buffer
memcpy(dst, src, n) == Take(src, n) \o Drop(dst, n)

\* glossy_header_t view of a received frame: (glossy_header_t*)pkt
rcvd_header(pkt) == [pkt_type |-> pkt[1], relay_cnt |-> pkt[2]]

\* the four checks made while the header has not been accepted yet
header_checks(w, pkt, pkt_len) ==
  /\ GET_COMMON_HEADER(pkt[1]) = GLOSSY_COMMON_HEADER
  /\ GET_SYNC(w.g.header.pkt_type) = GET_SYNC(pkt[1])
  /\ ~ ( /\ GET_N_TX_MAX(w.g.header.pkt_type) # GLOSSY_UNKNOWN_N_TX_MAX
         /\ GET_N_TX_MAX(w.g.header.pkt_type) # GET_N_TX_MAX(pkt[1]) )
  /\ ~ ( \/ ( /\ w.g.payload_len # GLOSSY_UNKNOWN_PAYLOAD_LEN
              /\ w.g.payload_len # pkt_len - GLOSSY_HEADER_LEN(w) )
         \/ pkt_len > GLOSSY_CONF_PAYLOAD_LEN + GLOSSY_MAX_HEADER_LEN )
  /\ ~ (pkt_len > GLOSSY_CONF_PAYLOAD_LEN + GLOSSY_MAX_HEADER_LEN)

\* variant of crc_len_ok: the length is not tested again after the CRC
crc_len_any(pkt_len) == TRUE

\* the length test repeated after the CRC
crc_len_ok(pkt_len) == ~ (pkt_len > GLOSSY_CONF_PAYLOAD_LEN + GLOSSY_MAX_HEADER_LEN)

\* returns [ok, w]: the return value and the world after the call
process_glossy_header(w, pkt, pkt_len, crc_ok) ==
  IF w.g.header_ok = 0 /\ ~ header_checks(w, pkt, pkt_len)
  THEN [ok |-> 0, w |-> w]
  ELSE LET w1 == [w EXCEPT !.g.header_ok = 1]
       IN IF crc_ok = 0 THEN [ok |-> 1, w |-> w1]
          ELSE IF ~ crc_len_ok(pkt_len) THEN [ok |-> 0, w |-> w1]
          ELSE LET w2 == [w1 EXCEPT !.g.header = rcvd_header(pkt)]
                   w3 == [w2 EXCEPT !.g.payload_len =
                                       U8(pkt_len - GLOSSY_HEADER_LEN(w2))]
               IN [ok |-> 1, w |-> rf1a_set_header_len_rx(w3, GLOSSY_HEADER_LEN(w3))]

\* variant of timeout_expired: the packet is sent again with the relay
\* counter it had
timeout_expired_same_relay_cnt(w, time) ==
  IF ~ rf1a_is_busy(w)
  THEN LET w1 == rf1a_start_tx(w)
           w3 == rf1a_write_to_tx_fifo(w1, w1.g.header, GLOSSY_HEADER_LEN(w1),
                                       w1.payload, w1.g.payload_len)
       IN [w3 EXCEPT !.g.t_timeout = time]
  ELSE LET w1 == [w EXCEPT !.g.relay_cnt_timeout = U8(@ + 1)]
       IN rtimer_ext_schedule(w1, time + w1.g.T_slot_estimated)

\* variant of timeout_expired: a postponed timeout is not counted in
\* relay_cnt_timeout
timeout_expired_uncounted(w, time) ==
  IF ~ rf1a_is_busy(w)
  THEN LET w1 == rf1a_start_tx(w)
           w2 == [w1 EXCEPT !.g.header.relay_cnt = w1.g.relay_cnt_timeout]
           w3 == rf1a_write_to_tx_fifo(w2, w2.g.header, GLOSSY_HEADER_LEN(w2),
                                       w2.payload, w2.g.payload_len)
       IN [w3 EXCEPT !.g.t_timeout = time]
  ELSE rtimer_ext_schedule(w, time + w.g.T_slot_estimated)

timeout_expired(w, time) ==
  IF ~ rf1a_is_busy(w)
  THEN LET w1 == rf1a_start_tx(w)
           w2 == [w1 EXCEPT !.g.header.relay_cnt = w1.g.relay_cnt_timeout]
           w3 == rf1a_write_to_tx_fifo(w2, w2.g.header, GLOSSY_HEADER_LEN(w2),
                                       w2.payload, w2.g.payload_len)
       IN [w3 EXCEPT !.g.t_timeout = time]
  ELSE LET w1 == [w EXCEPT !.g.relay_cnt_timeout = U8(@ + 1)]
       IN rtimer_ext_schedule(w1, time + w1.g.T_slot_estimated)

schedule_timeout(w) ==
  LET slot_timeout == SLOT_TIMEOUT_MIN
      w1 == IF WITH_RELAY_CNT(w)
            THEN [w EXCEPT !.g.relay_cnt_timeout =
                             U8(w.g.header.relay_cnt + slot_timeout)]
            ELSE w
  IN rtimer_ext_schedule(w1, w1.g.t_timeout + slot_timeout * w1.g.T_slot_estimated)

update_t_ref(w, t_ref, relay_cnt) ==
  [w EXCEPT !.g.t_ref = t_ref, !.g.t_ref_updated = 1, !.g.relay_cnt_t_ref = relay_cnt]

\* variant of add_T_slot_measurement: the window is closed at both ends
add_T_slot_measurement_closed(w, T_slot_measured) ==
  IF /\ ~ U32Less(T_slot_measured, w.g.T_slot_estimated - T_SLOT_TOLERANCE)
     /\ ~ U32Less(w.g.T_slot_estimated + T_SLOT_TOLERANCE, T_slot_measured)
  THEN [w EXCEPT !.g.T_slot_sum = @ + T_slot_measured, !.g.n_T_slot = U8(@ + 1)]
  ELSE w

add_T_slot_measurement(w, T_slot_measured) ==
  IF /\ U32Less(w.g.T_slot_estimated - T_SLOT_TOLERANCE, T_slot_measured)
     /\ U32Less(T_slot_measured, w.g.T_slot_estimated + T_SLOT_TOLERANCE)
  THEN [w EXCEPT !.g.T_slot_sum = @ + T_slot_measured, !.g.n_T_slot = U8(@ + 1)]
  ELSE w

(***************************************************************************)
(* Glossy interface                                                        *)
(***************************************************************************)
\* variant of stop_radio_and_timer: the timeout is left running
stop_radio_keeps_timer(w) ==
  Cmd(rf1a_go_to_sleep(rf1a_flush_tx_fifo(rf1a_flush_rx_fifo(w))),
      "rf1a_clear_pending_interrupts")

\* the radio and timer part of glossy_stop
stop_radio_and_timer(w) ==
  Cmd(rf1a_go_to_sleep(rf1a_flush_tx_fifo(rf1a_flush_rx_fifo(rtimer_ext_stop(w)))),
      "rf1a_clear_pending_interrupts")

\* t_ref is moved back to the start of the flood
\* variant of stop_t_ref: the measured slot lengths are not used
stop_t_ref_estimated_only(w) ==
  IF w.g.t_ref_updated # 0
  THEN [w EXCEPT !.g.t_ref = @ - w.g.relay_cnt_t_ref * w.g.T_slot_estimated]
  ELSE w

stop_t_ref(w) ==
  IF w.g.t_ref_updated # 0
  THEN IF w.g.n_T_slot > 0
       THEN [w EXCEPT !.g.t_ref =
               @ - ((w.g.relay_cnt_t_ref * w.g.T_slot_sum) \div w.g.n_T_slot)]
       ELSE [w EXCEPT !.g.t_ref = @ - w.g.relay_cnt_t_ref * w.g.T_slot_estimated]
  ELSE w

\* statistics of glossy_stop: the flood counters of a receiver (uint32_t,
\* which no run of the model makes wrap)
stop_stats(w) ==
  IF w.g.stats.collect /\ ~ IS_INITIATOR(w)
  THEN [w EXCEPT
          !.g.stats.flood_cnt =
            IF w.g.stats.last_flood_n_rx_started # 0 THEN @ + 1 ELSE @,
          !.g.stats.flood_cnt_success = IF w.g.n_rx # 0 THEN @ + 1 ELSE @]
  ELSE w

\* the body of glossy_stop, run when a flood is active
stop_active(w) ==
  rtimer_ext_update_enable(
    [stop_stats(stop_t_ref([stop_radio_and_timer(w) EXCEPT !.g.active = 0]))
       EXCEPT !.irq.glossy = TRUE])

\* return g.n_rx: the return value is left in ret
return_n_rx(w) == [w EXCEPT !.ret = w.g.n_rx]

\* variant of glossy_stop: the body runs whether or not a flood is active
glossy_stop_unguarded(w) == return_n_rx(stop_active(w))

glossy_stop(w) == return_n_rx(IF w.g.active # 0 THEN stop_active(w) ELSE w)

\* packet error rate in 1/100 of a percent, a uint16_t
glossy_get_per(w) ==
  IF w.g.stats.pkt_cnt # 0
  THEN U16(10000 - U16((w.g.stats.pkt_cnt_crcok * 10000) \div w.g.stats.pkt_cnt))
  ELSE 0

\* flood success rate in 1/100 of a percent, a uint16_t
glossy_get_fsr(w) ==
  IF w.g.stats.flood_cnt # 0
  THEN U16((w.g.stats.flood_cnt_success * 10000) \div w.g.stats.flood_cnt)
  ELSE 10000

\* variant of glossy_reset_stats: the statistics of the flood are cleared too
glossy_reset_stats_and_flood(w) ==
  [w EXCEPT !.g.stats.pkt_cnt = 0, !.g.stats.pkt_cnt_crcok = 0,
            !.g.stats.flood_cnt = 0, !.g.stats.flood_cnt_success = 0,
            !.g.stats.error_cnt = 0, !.g.stats.last_flood_n_rx_started = 0]

glossy_reset_stats(w) ==
  [w EXCEPT !.g.stats.pkt_cnt = 0, !.g.stats.pkt_cnt_crcok = 0,
            !.g.stats.flood_cnt = 0, !.g.stats.flood_cnt_success = 0,
            !.g.stats.error_cnt = 0]

\* variant of start_oversize: the header is left out of the length
start_oversize_payload_only(w) == w.g.payload_len > GLOSSY_MAX_PACKET_LEN

\* the initiator's packet does not fit GLOSSY_MAX_PACKET_LEN
start_oversize(w) == w.g.payload_len + GLOSSY_HEADER_LEN(w) > GLOSSY_MAX_PACKET_LEN

glossy_start(w, initiator_id, buf, payload_len, n_tx_max, with_sync, with_rf_cal, now) ==
  LET w1 == [w EXCEPT
               !.irq.glossy = FALSE,
               !.payload = buf,
               !.g.active = 1,
               !.g.initiator_id = initiator_id,
               !.g.payload_len = payload_len,
               !.g.n_rx = 0,
               !.g.n_tx = 0,
               !.g.relay_cnt_last_rx = 0,
               !.g.relay_cnt_last_tx = 0,
               !.g.t_ref_updated = 0,
               !.g.T_slot_sum = 0,
               !.g.n_T_slot = 0,
               !.g.T_slot_estimated = 0,
               !.g.stats.last_flood_n_rx_started = 0,
               !.g.stats.last_flood_n_rx_fail = 0,
               !.g.stats.already_counted = 0,
               !.g.header = [pkt_type |-> SET_PKT_TYPE(with_sync, n_tx_max),
                             relay_cnt |-> 0],
               !.flood = [n |-> w.flood.n + 1, n_tx_max |-> n_tx_max, writes |-> 0,
                          first |-> << >>, accepted |-> FALSE]]
      w2 == Cmd(Cmd(Cmd(Cmd(rf1a_go_to_idle(w1), "rf1a_set_rxoff_mode"),
                        "rf1a_set_txoff_mode"), "rf1a_set_calibration_mode"),
                "rf1a_reconfig_after_sleep")
      w3 == IF with_rf_cal # 0 THEN Cmd(w2, "rf1a_manual_calibration") ELSE w2
      w4 == rf1a_set_header_len_rx(w3, GLOSSY_HEADER_LEN(w3))
  IN IF IS_INITIATOR(w4)
     THEN IF start_oversize(w4)
          THEN glossy_stop(w4)
          ELSE LET w5 == rf1a_start_tx([w4 EXCEPT !.g.t_timeout = now + TIMEOUT_EXTRA_TICKS])
                   w6 == rf1a_write_to_tx_fifo(w5, w5.g.header, GLOSSY_HEADER_LEN(w5),
                                               w5.payload, w5.g.payload_len)
               IN [w6 EXCEPT !.g.relay_cnt_timeout = 0]
     ELSE rf1a_start_rx(w4)

(***************************************************************************)
(* RF1A callback implementation.  The timestamps of rx_ended, tx_ended,    *)
(* rx_failed and rx_tx_error are only stored in t_rx_stop / t_tx_stop,     *)
(* which nothing reads; they are left out.                                 *)
(***************************************************************************)
\* statistics of rx_started: one more packet, one more in this flood
rx_started_stats(w) ==
  IF w.g.stats.collect
  THEN [w EXCEPT !.g.stats.already_counted = 0,
                 !.g.stats.pkt_cnt = @ + 1,
                 !.g.stats.last_flood_n_rx_started = U8(@ + 1)]
  ELSE w

rx_started_timeout(w) == IF IS_INITIATOR(w) THEN rtimer_ext_stop(w) ELSE w

rf1a_cb_rx_started(w, timestamp) ==
  rx_started_timeout(rx_started_stats(
    [rtimer_ext_update_disable(w)
       EXCEPT !.g.t_rx_start = timestamp, !.g.header_ok = 0]))

rf1a_cb_tx_started(w, timestamp) == [w EXCEPT !.g.t_tx_start = timestamp]

\* variant of rx_fail_stats: every failure report of a packet is counted
rx_fail_stats_every(w) ==
  IF w.g.stats.collect
  THEN [w EXCEPT !.g.stats.last_flood_n_rx_fail = U8(@ + 1),
                 !.g.stats.already_counted = 1]
  ELSE w

\* statistics of a failed reception: counted once per packet
rx_fail_stats(w) ==
  IF w.g.stats.collect /\ w.g.stats.already_counted = 0
  THEN [w EXCEPT !.g.stats.last_flood_n_rx_fail = U8(@ + 1),
                 !.g.stats.already_counted = 1]
  ELSE w

rf1a_cb_rx_failed(w) ==
  LET w1 == rtimer_ext_update_enable(rx_fail_stats(w))
  IN IF w1.g.active # 0 THEN rf1a_start_rx(rf1a_flush_rx_fifo(w1)) ELSE w1

rf1a_cb_header_received(w, header, packet_len) ==
  LET r == process_glossy_header(w, header, packet_len, 0)
  IN IF r.ok = 0 THEN rf1a_cb_rx_failed(rx_fail_stats(r.w)) ELSE r.w

\* variant of relay_cnt_incr: the relay counter is relayed as received
relay_cnt_kept(relay_cnt) == relay_cnt

\* g.header.relay_cnt++ on the 8-bit field
relay_cnt_incr(relay_cnt) == U8(relay_cnt + 1)

\* the first packet accepted in the flood is remembered
rx_first_packet(w, data) ==
  [w EXCEPT !.flood.accepted = TRUE,
            !.flood.first = IF w.flood.accepted THEN @
                            ELSE <<Take(data, w.g.payload_len)>>]

rx_incr_relay_cnt(w) == [w EXCEPT !.g.header.relay_cnt = relay_cnt_incr(@)]

\* the packet is relayed unless n_tx_max has been reached
rx_relay_or_stop(w, data) ==
  IF \/ GET_N_TX_MAX(w.g.header.pkt_type) = 0
     \/ w.g.n_tx < GET_N_TX_MAX(w.g.header.pkt_type)
  THEN rf1a_write_to_tx_fifo(w, w.g.header, GLOSSY_HEADER_LEN(w), data, w.g.payload_len)
  ELSE glossy_stop(w)

rx_incr_n_rx(w) == [w EXCEPT !.g.n_rx = U8(@ + 1)]

\* a receiver stores the payload of its first reception for the application
rx_store_payload(w, data) ==
  IF (~ IS_INITIATOR(w)) /\ w.g.n_rx = 1
  THEN [w EXCEPT !.payload = memcpy(@, data, w.g.payload_len),
                 !.flood.writes = IF @ < 2 THEN @ + 1 ELSE @]
  ELSE w

\* variant of rx_update_t_ref: a reception never sets the reference time
rx_update_t_ref_never(w) == w

\* variant of rx_update_t_ref: every reception sets the reference time
rx_update_t_ref_always(w) ==
  [update_t_ref(w, w.g.t_rx_start - NS_TO_RTIMER_EXT_HF(TAU1),
                U8(w.g.header.relay_cnt - 1))
     EXCEPT !.g.T_slot_estimated =
       estimate_T_slot(GLOSSY_HEADER_LEN(w) + w.g.payload_len)]

rx_update_t_ref(w) ==
  IF w.g.t_ref_updated = 0
  THEN [update_t_ref(w, w.g.t_rx_start - NS_TO_RTIMER_EXT_HF(TAU1),
                     U8(w.g.header.relay_cnt - 1))
          EXCEPT !.g.T_slot_estimated =
            estimate_T_slot(GLOSSY_HEADER_LEN(w) + w.g.payload_len)]
  ELSE w

\* variant of rx_measure_T_slot: every reception after a transmission is
\* measured, whatever its relay counter
rx_measure_T_slot_any(w) ==
  IF w.g.n_tx > 0
  THEN add_T_slot_measurement(
         w, w.g.t_rx_start - w.g.t_tx_start - NS_TO_RTIMER_EXT_HF(TAU1))
  ELSE w

rx_measure_T_slot(w) ==
  IF w.g.relay_cnt_last_rx = w.g.relay_cnt_last_tx + 1 /\ w.g.n_tx > 0
  THEN add_T_slot_measurement(
         w, w.g.t_rx_start - w.g.t_tx_start - NS_TO_RTIMER_EXT_HF(TAU1))
  ELSE w

rx_sync(w) ==
  IF WITH_SYNC(w)
  THEN rx_measure_T_slot(rx_update_t_ref(
         [w EXCEPT !.g.relay_cnt_last_rx = U8(w.g.header.relay_cnt - 1)]))
  ELSE w

rx_ended_payload(w, data) ==
  rx_sync(rx_store_payload(
    rx_incr_n_rx(rx_relay_or_stop(rx_incr_relay_cnt(rx_first_packet(w, data)), data)),
    data))

\* the part of rx_ended run for a packet whose header and CRC are fine
rx_ended_accept(w, pkt) == rx_ended_payload(w, Drop(pkt, GLOSSY_HEADER_LEN(w)))

\* statistics of rx_ended: one more packet with a correct CRC
rx_ended_stats(w) ==
  IF w.g.stats.collect THEN [w EXCEPT !.g.stats.pkt_cnt_crcok = @ + 1] ELSE w

rf1a_cb_rx_ended(w, pkt, pkt_len) ==
  LET r == process_glossy_header(rx_ended_stats(rtimer_ext_update_enable(w)),
                                 pkt, pkt_len, 1)
  IN IF r.ok # 0 THEN rx_ended_accept(r.w, pkt)
     ELSE rf1a_cb_rx_failed(rx_fail_stats(r.w))

\* variant of tx_ended_is_last: one transmission too many
tx_ended_is_last_plus_one(w) ==
  /\ w.g.n_tx = GET_N_TX_MAX(w.g.header.pkt_type) + 1
  /\ (GET_N_TX_MAX(w.g.header.pkt_type) > 0 \/ ~ IS_INITIATOR(w))

\* variant of tx_ended_is_last: an initiator never stops by itself
tx_ended_is_last_receiver_only(w) ==
  /\ w.g.n_tx = GET_N_TX_MAX(w.g.header.pkt_type)
  /\ ~ IS_INITIATOR(w)

\* the test of tx_ended for the last transmission of the flood
tx_ended_is_last(w) ==
  /\ w.g.n_tx = GET_N_TX_MAX(w.g.header.pkt_type)
  /\ (GET_N_TX_MAX(w.g.header.pkt_type) > 0 \/ ~ IS_INITIATOR(w))

\* variant of tx_update_t_ref: every transmission sets the reference time
tx_update_t_ref_always(w) ==
  update_t_ref(w, w.g.t_tx_start, w.g.header.relay_cnt)

tx_update_t_ref(w) ==
  IF w.g.t_ref_updated = 0
  THEN update_t_ref(w, w.g.t_tx_start, w.g.header.relay_cnt)
  ELSE w

tx_measure_T_slot(w) ==
  IF w.g.relay_cnt_last_tx = w.g.relay_cnt_last_rx + 1 /\ w.g.n_rx > 0
  THEN add_T_slot_measurement(
         w, w.g.t_tx_start - w.g.t_rx_start + NS_TO_RTIMER_EXT_HF(TAU1))
  ELSE w

tx_sync(w) ==
  IF WITH_SYNC(w)
  THEN tx_measure_T_slot(tx_update_t_ref(
         [w EXCEPT !.g.relay_cnt_last_tx = w.g.header.relay_cnt]))
  ELSE w

tx_incr_n_tx(w) == [w EXCEPT !.g.n_tx = U8(@ + 1)]

\* variant of tx_stop_or_timeout: no retransmission timeout is scheduled
tx_stop_only(w) == IF tx_ended_is_last(w) THEN glossy_stop(w) ELSE w

tx_stop_or_timeout(w) ==
  IF tx_ended_is_last(w)
  THEN glossy_stop(w)
  ELSE IF GLOSSY_CONF_RETRANSMISSION_TIMEOUT /\ IS_INITIATOR(w) /\ w.g.n_rx = 0
       THEN schedule_timeout(w)
       ELSE w

rf1a_cb_tx_ended(w) == tx_stop_or_timeout(tx_incr_n_tx(tx_sync(w)))

\* statistics of rx_tx_error: one more error (uint16_t)
rx_tx_error_stats(w) ==
  IF w.g.stats.collect THEN [w EXCEPT !.g.stats.error_cnt = U16(@ + 1)] ELSE w

\* variant of rf1a_cb_rx_tx_error: the TX FIFO is not flushed
rf1a_cb_rx_tx_error_keeps_tx_fifo(w) ==
  LET w1 == rtimer_ext_update_enable(rx_tx_error_stats(w))
  IN IF w1.g.active # 0
     THEN rf1a_start_rx(rf1a_flush_rx_fifo(w1))
     ELSE w1

rf1a_cb_rx_tx_error(w) ==
  LET w1 == rtimer_ext_update_enable(rx_tx_error_stats(w))
  IN IF w1.g.active # 0
     THEN rf1a_start_rx(rf1a_flush_tx_fifo(rf1a_flush_rx_fifo(w1)))
     ELSE w1

(***************************************************************************)
(* Inputs                                                                  *)
(***************************************************************************)
OtherNode == node_id + 1
OtherTag == GLOSSY_COMMON_HEADER - 32

\* frames on the air: a type byte, the relay counter when the sync bit is
\* set, then the payload; every frame carries at least two bytes
FramesOf(types, relays, payloads) ==
  { <<t, r>> \o p : t \in {x \in types : GET_SYNC(x) # 0}, r \in relays, p \in payloads }
    \cup
  { <<t>> \o p : t \in {x \in types : GET_SYNC(x) = 0},
                 p \in {q \in payloads : Len(q) >= 1} }

\* the length the driver reports for a frame: its own, or one beyond the
\* maximum (the driver's length has been found unreliable)
ReportedLens(pkt) == {Len(pkt), GLOSSY_MAX_PACKET_LEN + 1}

\* arguments of glossy_start: an initiator hands over its payload, a receiver
\* an empty buffer of GLOSSY_CONF_PAYLOAD_LEN bytes
RxBuffer == [i \in 1..GLOSSY_CONF_PAYLOAD_LEN |-> 0]
StartArgsOf(ntx, syncs, payloads, rxlens) ==
  { [initiator_id |-> node_id, buf |-> p, payload_len |-> Len(p),
     n_tx_max |-> n, with_sync |-> s] : p \in payloads, n \in ntx, s \in syncs }
    \cup
  { [initiator_id |-> OtherNode, buf |-> RxBuffer, payload_len |-> l,
     n_tx_max |-> n, with_sync |-> s] : l \in rxlens, n \in ntx, s \in syncs }

(***************************************************************************)
(* State machine                                                           *)
(***************************************************************************)
\* the zero-initialised g.  stats.collect is GLOSSY_CONF_COLLECT_STATS of the
\* build: the statistics code is compiled in or left out.
ZeroState(collect) ==
  [t_ref |-> 0, t_rx_start |-> 0, t_tx_start |-> 0, T_slot_sum |-> 0,
   t_timeout |-> 0, T_slot_estimated |-> 0,
   header |-> [pkt_type |-> 0, relay_cnt |-> 0],
   initiator_id |-> 0, payload_len |-> 0, n_T_slot |-> 0, active |-> 0,
   t_ref_updated |-> 0, header_ok |-> 0, relay_cnt_last_rx |-> 0,
   relay_cnt_last_tx |-> 0, relay_cnt_t_ref |-> 0, relay_cnt_timeout |-> 0,
   n_rx |-> 0, n_tx |-> 0,
   stats |-> [collect |-> collect, last_flood_n_rx_started |-> 0,
              last_flood_n_rx_fail |-> 0, already_counted |-> 0,
              pkt_cnt |-> 0, pkt_cnt_crcok |-> 0,
              flood_cnt |-> 0, flood_cnt_success |-> 0, error_cnt |-> 0]]

\* a node before its first flood: no buffer, the radio asleep, the timer idle
ZeroWorld(collect) ==
  [g |-> ZeroState(collect),
   payload |-> << >>,
   rf |-> [asleep |-> TRUE, mode |-> "idle", rx |-> "none", tx |-> "none",
           txfifo |-> << >>, header_len_rx |-> 0, air |-> << >>],
   rt |-> [pending |-> FALSE, time |-> 0],
   irq |-> [glossy |-> TRUE, update |-> TRUE],
   cmds |-> << >>,
   ret |-> 0,
   flood |-> [n |-> 0, n_tx_max |-> 0, writes |-> 0, first |-> << >>,
              accepted |-> FALSE]]

\* no network: the node is driven by its environment
NoNet == [node |-> << >>, link |-> {}, phase |-> "off", slot |-> 0,
          n_tx_max |-> 0, with_sync |-> 0]

\* two nodes before their first flood
NoTwin == [a |-> ZeroWorld(FALSE), b |-> ZeroWorld(FALSE), phase |-> "past",
           ok |-> <<0, 0>>]

Boot(w) ==
  /\ g = w.g
  /\ payload = w.payload
  /\ rf = w.rf
  /\ rt = w.rt
  /\ irq = w.irq
  /\ cmds = w.cmds
  /\ ret = w.ret
  /\ flood = w.flood
  /\ last = [op |-> "init", pkt_len |-> 0, ok |-> 0]
  /\ twin = NoTwin

\* a build without GLOSSY_CONF_COLLECT_STATS
Init == Boot(ZeroWorld(FALSE)) /\ net = NoNet

\* a build with GLOSSY_CONF_COLLECT_STATS
InitStats == Boot(ZeroWorld(TRUE)) /\ net = NoNet

Apply(w, l) ==
  /\ g' = w.g
  /\ payload' = w.payload
  /\ rf' = w.rf
  /\ rt' = w.rt
  /\ irq' = w.irq
  /\ cmds' = w.cmds
  /\ ret' = w.ret
  /\ flood' = w.flood
  /\ last' = l
  /\ net' = net
  /\ twin' = twin

Op(name) == [op |-> name, pkt_len |-> 0, ok |-> 0]

\* the caller starts a flood when none is in progress, up to a number of
\* floods
StartWithin(floods, args, cals, times) ==
  /\ g.active = 0
  /\ flood.n < floods
  /\ \E a \in args, c \in cals, now \in times :
       Apply(glossy_start(World, a.initiator_id, a.buf, a.payload_len, a.n_tx_max,
                          a.with_sync, c, now),
             Op("glossy_start"))

Start(args, cals, times) == StartWithin(MaxFloods, args, cals, times)

Stop == Apply(glossy_stop(World), Op("glossy_stop"))

ResetStats == Apply(glossy_reset_stats(World), Op("glossy_reset_stats"))

\* The driver delivers the callbacks of one packet in order: rx_started,
\* header_received (if the packet is long enough), then rx_ended or
\* rx_failed; tx_started then tx_ended.  Once the radio sleeps, the callback
\* of what was in progress may still arrive, late; nothing follows it.
Driver(w) == IF w.rf.asleep
             THEN [w EXCEPT !.rf.mode = "idle", !.rf.rx = "none", !.rf.tx = "none",
                            !.rf.air = << >>]
             ELSE w

RxStarted(cap, times, frames) ==
  /\ rf.mode = "rx" /\ rf.rx = "none"
  /\ g.n_rx < cap
  /\ g.stats.last_flood_n_rx_started <= cap /\ g.stats.pkt_cnt <= cap
  /\ \E ts \in times, pkt \in frames :
       Apply(rf1a_cb_rx_started(
               Driver([World EXCEPT !.rf.rx = "started", !.rf.air = pkt]), ts),
             Op("rx_started"))

HeaderReceived ==
  /\ rf.rx = "started"
  /\ \E len \in ReportedLens(rf.air) :
       LET w == Driver([World EXCEPT !.rf.rx = "header"])
       IN Apply(rf1a_cb_header_received(w, rf.air, len),
                [op |-> "header_received", pkt_len |-> len,
                 ok |-> process_glossy_header(w, rf.air, len, 0).ok])

\* at the end of a reception the radio switches to TX (rxoff mode)
RxEnded ==
  /\ rf.rx \in {"started", "header"}
  /\ \E len \in ReportedLens(rf.air) :
       LET w == Driver([World EXCEPT !.rf.mode = "tx", !.rf.rx = "none",
                                     !.rf.tx = "pre", !.rf.air = << >>])
       IN Apply(rf1a_cb_rx_ended(w, rf.air, len),
                [op |-> "rx_ended", pkt_len |-> len,
                 ok |-> process_glossy_header(w, rf.air, len, 1).ok])

RxFailed ==
  /\ rf.rx \in {"started", "header"}
  /\ Apply(rf1a_cb_rx_failed(Driver([World EXCEPT !.rf.rx = "none", !.rf.air = << >>])),
           Op("rx_failed"))

TxStarted(cap, times) ==
  /\ rf.mode = "tx" /\ rf.tx = "pre"
  /\ g.n_tx < cap
  /\ \E ts \in times :
       Apply(rf1a_cb_tx_started(Driver([World EXCEPT !.rf.tx = "sending"]), ts),
             Op("tx_started"))

\* at the end of a transmission the radio switches to RX (txoff mode)
TxEnded ==
  /\ rf.tx = "sending"
  /\ Apply(rf1a_cb_tx_ended(Driver([World EXCEPT !.rf.mode = "rx", !.rf.tx = "none"])),
           Op("tx_ended"))

\* an unexpected edge of the radio's interrupt line while it receives or sends
RxTxError ==
  /\ rf.mode \in {"rx", "tx"}
  /\ last.op # "rx_tx_error"
  /\ g.stats.error_cnt < MaxErr
  /\ Apply(rf1a_cb_rx_tx_error(
             Driver([World EXCEPT !.rf.rx = "none", !.rf.tx = "none", !.rf.air = << >>])),
           Op("rx_tx_error"))

\* the one-shot timer fires
Timeout(cap) ==
  /\ rt.pending
  /\ rf1a_is_busy(World) => g.relay_cnt_timeout < cap
  /\ Apply(timeout_expired([World EXCEPT !.rt.pending = FALSE], rt.time),
           Op("timeout_expired"))

Step(capRx, capTx, args, cals, times, frames) ==
  \/ Start(args, cals, times)
  \/ Stop
  \/ RxStarted(capRx, times, frames)
  \/ HeaderReceived
  \/ RxEnded
  \/ RxFailed
  \/ TxStarted(capTx, times)
  \/ TxEnded
  \/ RxTxError
  \/ Timeout(capTx)

NTxVals == {0, 1, 2}
PktTypes ==
  {SET_PKT_TYPE(s, n) : s \in {0, 1}, n \in NTxVals} \cup {OtherTag + 1}
RelayVals == {0, 255}
Payloads == {<<66>>}
TimeStamps == {100000}
Frames == FramesOf(PktTypes, RelayVals, Payloads)
\* an initiator's payload that does not fit the packet next to a 2-byte header
OversizeArgs == StartArgsOf({1}, {1}, {<<65, 66, 67>>}, {})
StartArgs ==
  StartArgsOf(NTxVals, {0, 1}, {<<65>>}, {GLOSSY_UNKNOWN_PAYLOAD_LEN, 1})
    \cup OversizeArgs

Next == Step(MaxRx, MaxTx, StartArgs, {0}, TimeStamps, Frames)

Spec == Init /\ [][Next]_vars

\* Long floods: frames of one header, a receiver that knows it and an
\* initiator of another flood, so that the receiver's 8-bit counters can run
\* through their whole range
LongPayloads == {<<65>>, <<66>>}
LongFrames == FramesOf({SET_PKT_TYPE(0, 1)}, {0}, LongPayloads)
LongArgs ==
  StartArgsOf({0}, {0}, {<<65, 66>>}, {}) \cup StartArgsOf({1}, {0}, {}, {1})

NextLong == Step(LongCap, MaxTx, LongArgs, {0}, TimeStamps, LongFrames)

SpecLong == Init /\ [][NextLong]_vars

\* A receiver that relays an unbounded flood (n_tx_max = 0) packet by packet,
\* without reception errors: more than 255 transmissions in one flood.
RelayFrames == FramesOf({SET_PKT_TYPE(0, 0)}, {0}, {<<66>>})
RelayArgs == StartArgsOf({0}, {0}, {}, {1})

NextRelay ==
  \/ Start(RelayArgs, {0}, TimeStamps)
  \/ Stop
  \/ RxStarted(LongCap, TimeStamps, RelayFrames)
  \/ RxEnded
  \/ TxStarted(LongCap, TimeStamps)
  \/ TxEnded

SpecRelay == Init /\ [][NextRelay]_vars

\* An initiator that hears no other node: nothing is received, the
\* application does not stop the flood.  The timer fires every timeout it
\* was given and the radio sends every packet it was told to send.
AloneArgs == StartArgsOf(1..GLOSSY_HEADER_N_TX_MASK, {0, 1}, {<<65>>}, {})
AloneCap == GLOSSY_HEADER_N_TX_MASK + 1

NextAlone ==
  \/ Start(AloneArgs, {0}, TimeStamps)
  \/ TxStarted(AloneCap, TimeStamps)
  \/ TxEnded
  \/ Timeout(AloneCap)

SpecAlone ==
  /\ Init /\ [][NextAlone]_vars
  /\ WF_vars(TxStarted(AloneCap, TimeStamps))
  /\ WF_vars(TxEnded)
  /\ WF_vars(Timeout(AloneCap))

\* A build that collects statistics; the application resets them at any time.
StatsFrames == FramesOf({SET_PKT_TYPE(0, 2)}, {0}, {<<66>>})
StatsArgs == StartArgsOf({2}, {0}, {<<65>>}, {1})

NextStats ==
  \/ Step(MaxRx, MaxTx, StatsArgs, {0}, TimeStamps, StatsFrames)
  \/ ResetStats

SpecStats == InitStats /\ [][NextStats]_vars

\* The same build over two floods, so that a flood starts and ends with the
\* counters of the flood before it.  A reception ends in rx_ended, which
\* accepts the packet or, its length reported wrong, rejects it.
StatsFloods == 2

NextStatsTwo ==
  \/ StartWithin(StatsFloods, StatsArgs, {0}, TimeStamps)
  \/ Stop
  \/ RxStarted(MaxRx, TimeStamps, StatsFrames)
  \/ RxEnded
  \/ TxStarted(MaxTx, TimeStamps)
  \/ TxEnded
  \/ RxTxError
  \/ ResetStats

SpecStatsTwo == InitStats /\ [][NextStatsTwo]_vars

\* A receiver of that build in a flood in which more than 255 packets start;
\* a packet is accepted or, its length reported wrong, rejected by rx_ended.
NextStatsLong ==
  \/ Start(StartArgsOf({2}, {0}, {}, {1}), {0}, TimeStamps)
  \/ Stop
  \/ RxStarted(LongCap, TimeStamps, StatsFrames)
  \/ RxEnded
  \/ TxStarted(MaxTx, TimeStamps)
  \/ TxEnded

SpecStatsLong == InitStats /\ [][NextStatsLong]_vars

\* Floods with time synchronisation whose captured timestamps are one slot
\* apart, so that slot lengths are measured: T_slot_estimated is 1586 ticks
\* for a packet of 3 bytes and NS_TO_RTIMER_EXT_HF(TAU1) is 13 ticks, the
\* slot measured is 1588 ticks (TX after RX); a reception 1562 ticks after
\* the transmission is out of tolerance.
SlotTimeStamps == {100000, 101575}
SlotFrames == FramesOf({SET_PKT_TYPE(1, 2)}, {1, 4}, {<<66>>})
SlotArgs == StartArgsOf({2}, {1}, {<<65>>}, {1})

NextSlot == Step(MaxRx, MaxTx, SlotArgs, {0}, SlotTimeStamps, SlotFrames)

SpecSlot == Init /\ [][NextSlot]_vars

\* Sync floods whose timestamps make the measured slot 3 or 30 ticks longer
\* than T_slot_estimated: on a receiver (estimate 1586 ticks, transmission
\* 1576 or 1603 ticks after the reception) and on the initiator (reception 16
\* or 43 ticks after the transmission: a measured slot of 3 or 30 ticks).
TolTimeStamps == {100000, 100016, 100043, 101576, 101603}
TolFrames == FramesOf({SET_PKT_TYPE(1, 2)}, {1}, {<<66>>})

NextTol == Step(MaxRx, MaxTx, SlotArgs, {0}, TolTimeStamps, TolFrames)

SpecTol == Init /\ [][NextTol]_vars

\* Sync floods in which a transmission 1575 ticks after a reception and a
\* reception 1600 ticks after a transmission measure a slot within the
\* tolerance of the receiver's estimate (1586 ticks), with relay counters
\* that follow one another (1, 2, 3) or do not.
MeasRxStamps == {100000, 103175}
MeasTxStamps == {101575}
MeasFrames == FramesOf({SET_PKT_TYPE(1, 2)}, {1, 3}, {<<66>>})

NextMeas ==
  \/ Start(SlotArgs, {0}, TimeStamps)
  \/ Stop
  \/ RxStarted(MaxRx, MeasRxStamps, MeasFrames)
  \/ HeaderReceived
  \/ RxEnded
  \/ RxFailed
  \/ TxStarted(MaxTx, MeasTxStamps)
  \/ TxEnded
  \/ RxTxError
  \/ Timeout(MaxTx)

SpecMeas == Init /\ [][NextMeas]_vars

\* Sync floods whose measured slots lie at the edges of the tolerance: a
\* receiver (estimate 1586 ticks) sends 1563, 1564, 1582 or 1583 ticks after
\* its reception and measures 1576, 1577, 1595 or 1596 ticks; the initiator,
\* whose estimate is 0, receives 18 ticks after a transmission and measures 5
\* ticks, or receives before its transmission timestamp.
WinRxStamps == {100000, 101581}
WinTxStamps == {101563, 101564, 101582, 101583}
WinFrames == FramesOf({SET_PKT_TYPE(1, 2)}, {1}, {<<66>>})

NextWin ==
  \/ Start(SlotArgs, {0}, {100000})
  \/ Stop
  \/ RxStarted(MaxRx, WinRxStamps, WinFrames)
  \/ RxEnded
  \/ TxStarted(MaxTx, WinTxStamps)
  \/ TxEnded
  \/ Timeout(MaxTx)

SpecWin == Init /\ [][NextWin]_vars

\* Two sync floods one after the other, so that a timeout armed by a late
\* tx_ended of the first can expire in the second while a packet is being
\* received: the only way the timer expires with the radio busy.
NextLate ==
  \/ StartWithin(StatsFloods, SlotArgs, {0}, TimeStamps)
  \/ Stop
  \/ RxStarted(MaxRx, TimeStamps, SlotFrames)
  \/ RxEnded
  \/ TxStarted(MaxTx, TimeStamps)
  \/ TxEnded
  \/ Timeout(MaxTx)

SpecLate == Init /\ [][NextLate]_vars

\* Two floods, with and without sync, the first as initiator: a timeout armed
\* by a late tx_ended of the first flood can expire in the second while the
\* node receives a packet, before and after T_slot_estimated is set.
BusyArgs == StartArgsOf({2}, {0, 1}, {<<65>>}, {1})
BusyFrames == FramesOf({SET_PKT_TYPE(1, 2)}, {1}, {<<66>>})

NextBusy ==
  \/ StartWithin(StatsFloods, BusyArgs, {0}, TimeStamps)
  \/ Stop
  \/ RxStarted(MaxRx, TimeStamps, BusyFrames)
  \/ RxEnded
  \/ TxStarted(MaxTx, TimeStamps)
  \/ TxEnded
  \/ Timeout(MaxTx)

SpecBusy == Init /\ [][NextBusy]_vars

\* The macros of header byte 0 on their own: the arguments with_sync and
\* n_tx_max are drawn at the start, SET_PKT_TYPE writes g.header.pkt_type
\* and the three GET macros read it.
HdrSyncs == {0, 1}
HdrNTx == 0 .. 15

InitHdr ==
  /\ Boot(ZeroWorld(FALSE))
  /\ net \in { [NoNet EXCEPT !.phase = "macros", !.with_sync = s, !.n_tx_max = n] :
               s \in HdrSyncs, n \in HdrNTx }

SetPktType ==
  /\ last.op = "init"
  /\ Apply([World EXCEPT !.g.header.pkt_type =
                           SET_PKT_TYPE(net.with_sync, net.n_tx_max)],
           Op("SET_PKT_TYPE"))

GetCommonHeader ==
  /\ last.op # "init"
  /\ Apply([World EXCEPT !.ret = GET_COMMON_HEADER(g.header.pkt_type)],
           Op("GET_COMMON_HEADER"))

GetSync ==
  /\ last.op # "init"
  /\ Apply([World EXCEPT !.ret = GET_SYNC(g.header.pkt_type)], Op("GET_SYNC"))

GetNTxMax ==
  /\ last.op # "init"
  /\ Apply([World EXCEPT !.ret = GET_N_TX_MAX(g.header.pkt_type)],
           Op("GET_N_TX_MAX"))

NextHdr ==
  \/ SetPktType
  \/ GetCommonHeader
  \/ GetSync
  \/ GetNTxMax

SpecHdr == InitHdr /\ [][NextHdr]_vars

\* An initiator started with n_tx_max beyond the 4 bits of the header field,
\* in a flood long enough for the 8-bit n_tx to wrap.
WideArgs == { a \in StartArgsOf({16, 17, 32}, {0}, {<<65>>}, {1}) :
              a.initiator_id = node_id }
WideFrames == FramesOf({SET_PKT_TYPE(0, 0), SET_PKT_TYPE(0, 2)}, {0}, {<<66>>})

NextWide ==
  \/ Start(WideArgs, {0}, {100000})
  \/ Stop
  \/ RxStarted(MaxRx, {100000}, WideFrames)
  \/ RxEnded
  \/ TxStarted(LongCap, {100000})
  \/ TxEnded
  \/ Timeout(MaxTx)

SpecWide == Init /\ [][NextWide]_vars

(***************************************************************************)
(* A network of nodes, each running glossy.c, over lossless links.  Time   *)
(* advances in slots of one packet: the nodes whose radio was told to send *)
(* start sending (tx_started), their neighbours that listen receive the    *)
(* packet (rx_started, header_received), the senders finish (tx_ended),    *)
(* then the receivers (rx_ended), then the timers that are due fire.  Node *)
(* 1 is the initiator.  A node's ids are relative to itself: node_id is    *)
(* "this node" and OtherNode is "another node".                            *)
(***************************************************************************)
MaxSlot == 16
NetNTx == {1, 2, 3}
Topologies ==
  { {{1, 2}}, {{1, 2}, {2, 3}}, {{1, 2}, {1, 3}}, {{1, 2}, {1, 3}, {2, 3}} }
InitiatorPayload == <<65>>

Nodes == DOMAIN net.node
Neighbours(i) == {j \in Nodes : {i, j} \in net.link}

InitNet ==
  /\ Boot(ZeroWorld(FALSE))
  /\ \E l \in Topologies, n \in NetNTx, s \in {0, 1} :
       net = [node |-> [i \in UNION l |-> ZeroWorld(FALSE)], link |-> l,
              phase |-> "start", slot |-> 0, n_tx_max |-> n, with_sync |-> s]

\* the radio of a node: told to send, sending, listening, receiving
Pre(w) == ~ w.rf.asleep /\ w.rf.mode = "tx" /\ w.rf.tx = "pre"
Sending(w) == ~ w.rf.asleep /\ w.rf.tx = "sending"
Listening(w) == ~ w.rf.asleep /\ w.rf.mode = "rx" /\ w.rf.rx = "none"
Receiving(w) == ~ w.rf.asleep /\ w.rf.rx # "none"

\* length of a slot and capture times of a slot, in timer ticks
SlotLen ==
  estimate_T_slot((IF net.with_sync # 0 THEN 2 ELSE 1) + Len(InitiatorPayload))
SlotStart == 1000 + net.slot * SlotLen
SlotEnd == SlotStart + SlotLen

\* node i has run an operation that left it as world w
NodeDid(i, w) ==
  /\ net' = [net EXCEPT !.node[i] = [w EXCEPT !.cmds = << >>]]
  /\ UNCHANGED <<nodeVars, twin>>

NetStart ==
  \E i \in Nodes :
  /\ net.phase = "start"
  /\ net.node[i].flood.n = 0
  /\ IF i = 1
     THEN /\ \A j \in Nodes \ {1} : net.node[j].g.active # 0
          /\ NodeDid(i, glossy_start(net.node[i], node_id, InitiatorPayload,
                                     Len(InitiatorPayload), net.n_tx_max,
                                     net.with_sync, 0, 0))
     ELSE \E n \in {GLOSSY_UNKNOWN_N_TX_MAX, net.n_tx_max} :
            NodeDid(i, glossy_start(net.node[i], OtherNode, RxBuffer,
                                    Len(InitiatorPayload), n, net.with_sync, 0, 0))

NetTxStarted ==
  \E i \in Nodes :
  /\ net.phase = "tx"
  /\ Pre(net.node[i])
  /\ NodeDid(i, rf1a_cb_tx_started([net.node[i] EXCEPT !.rf.tx = "sending"],
                                   SlotStart))

\* a listening node receives what a sending neighbour sends
NetRxStarted ==
  \E i \in Nodes :
  /\ net.phase = "rx"
  /\ Listening(net.node[i])
  /\ \E j \in Neighbours(i) :
       /\ Sending(net.node[j])
       /\ NodeDid(i, rf1a_cb_rx_started(
                       [net.node[i] EXCEPT !.rf.rx = "started",
                                           !.rf.air = net.node[j].rf.txfifo],
                       SlotStart + NS_TO_RTIMER_EXT_HF(TAU1)))

NetHeaderReceived ==
  \E i \in Nodes :
  /\ net.phase = "rx"
  /\ ~ net.node[i].rf.asleep /\ net.node[i].rf.rx = "started"
  /\ NodeDid(i, rf1a_cb_header_received(
                  [net.node[i] EXCEPT !.rf.rx = "header"],
                  net.node[i].rf.air, Len(net.node[i].rf.air)))

NetTxEnded ==
  \E i \in Nodes :
  /\ net.phase = "txend"
  /\ Sending(net.node[i])
  /\ NodeDid(i, rf1a_cb_tx_ended(
                  [net.node[i] EXCEPT !.rf.mode = "rx", !.rf.tx = "none"]))

NetRxEnded ==
  \E i \in Nodes :
  /\ net.phase = "rxend"
  /\ Receiving(net.node[i])
  /\ NodeDid(i, rf1a_cb_rx_ended(
                  [net.node[i] EXCEPT !.rf.mode = "tx", !.rf.rx = "none",
                                      !.rf.tx = "pre", !.rf.air = << >>],
                  net.node[i].rf.air, Len(net.node[i].rf.air)))

\* a timer whose time has come by the end of the slot
Due(w) == w.rt.pending /\ w.rt.time <= SlotEnd

NetTimeout ==
  \E i \in Nodes :
  /\ net.phase = "timer"
  /\ Due(net.node[i])
  /\ NodeDid(i, timeout_expired([net.node[i] EXCEPT !.rt.pending = FALSE],
                                net.node[i].rt.time))

\* something is left to do in the current part of the slot
PhaseBusy ==
  \E i \in Nodes :
    \/ net.phase = "start" /\ net.node[i].flood.n = 0
    \/ net.phase = "tx" /\ Pre(net.node[i])
    \/ net.phase = "rx"
         /\ \/ ~ net.node[i].rf.asleep /\ net.node[i].rf.rx = "started"
            \/ /\ Listening(net.node[i])
               /\ \E j \in Neighbours(i) : Sending(net.node[j])
    \/ net.phase = "txend" /\ Sending(net.node[i])
    \/ net.phase = "rxend" /\ Receiving(net.node[i])
    \/ net.phase = "timer" /\ Due(net.node[i])

\* some radio or timer of the network has work pending
Live ==
  \E i \in Nodes :
    \/ Pre(net.node[i]) \/ Sending(net.node[i]) \/ Receiving(net.node[i])
    \/ net.node[i].rt.pending

NextPhase(p) ==
  CASE p = "start" -> "tx"
    [] p = "tx" -> "rx"
    [] p = "rx" -> "txend"
    [] p = "txend" -> "rxend"
    [] p = "rxend" -> "timer"
    [] p = "timer" -> "tx"

\* time passes: the next part of the slot, or the next slot
NetTick ==
  /\ net.phase # "off"
  /\ ~ PhaseBusy
  /\ Live
  /\ net.slot < MaxSlot
  /\ net' = [net EXCEPT !.phase = NextPhase(@),
                        !.slot = IF net.phase = "timer" THEN @ + 1 ELSE @]
  /\ UNCHANGED <<nodeVars, twin>>

NextNet ==
  \/ NetStart
  \/ NetTxStarted
  \/ NetRxStarted
  \/ NetHeaderReceived
  \/ NetTxEnded
  \/ NetRxEnded
  \/ NetTimeout
  \/ NetTick

SpecNet == InitNet /\ [][NextNet]_vars

(***************************************************************************)
(* Two nodes a and b running glossy.c.  Node b first runs a flood of its   *)
(* own (its past) while node a stays as it was after boot; then both are   *)
(* started with the same arguments and the environment delivers the same   *)
(* events to both: each callback with the same timestamp and frame, each   *)
(* call of glossy_stop, each expiry of the timeout.  The driver delivers   *)
(* the events in the order described above for one node.                   *)
(***************************************************************************)
TwinPastTime == 100000
TwinTime == 200000
TwinFrames ==
  FramesOf({SET_PKT_TYPE(0, 2), SET_PKT_TYPE(1, 2)}, {1}, {<<66>>})
TwinArgs == StartArgsOf({2}, {0, 1}, {<<65>>}, {1})

\* the events the environment can deliver to a node in world w
Events(w, ts) ==
  {[op |-> "glossy_stop", pkt |-> << >>]}
    \cup {[op |-> "rx_started", pkt |-> f] :
            f \in {x \in TwinFrames :
                     w.rf.mode = "rx" /\ w.rf.rx = "none" /\ w.g.n_rx < MaxRx}}
    \cup {[op |-> o, pkt |-> w.rf.air] :
            o \in {x \in {"header_received"} : w.rf.rx = "started"}}
    \cup {[op |-> o, pkt |-> w.rf.air] :
            o \in {x \in {"rx_ended", "rx_failed"} :
                     w.rf.rx \in {"started", "header"}}}
    \cup {[op |-> o, pkt |-> << >>] :
            o \in {x \in {"tx_started"} :
                     w.rf.mode = "tx" /\ w.rf.tx = "pre" /\ w.g.n_tx < MaxTx}}
    \cup {[op |-> o, pkt |-> << >>] :
            o \in {x \in {"tx_ended"} : w.rf.tx = "sending"}}
    \cup {[op |-> o, pkt |-> << >>] :
            o \in {x \in {"rx_tx_error"} : w.rf.mode \in {"rx", "tx"}}}
    \cup {[op |-> o, pkt |-> << >>] :
            o \in {x \in {"timeout_expired"} :
                     w.rt.pending
                       /\ (rf1a_is_busy(w) => w.g.relay_cnt_timeout < MaxTx)}}

\* the node in world w handles event e at time ts
Do(w, e, ts) ==
  CASE e.op = "glossy_stop" -> glossy_stop(w)
    [] e.op = "rx_started" ->
         rf1a_cb_rx_started(
           Driver([w EXCEPT !.rf.rx = "started", !.rf.air = e.pkt]), ts)
    [] e.op = "header_received" ->
         rf1a_cb_header_received(Driver([w EXCEPT !.rf.rx = "header"]),
                                 e.pkt, Len(e.pkt))
    [] e.op = "rx_ended" ->
         rf1a_cb_rx_ended(
           Driver([w EXCEPT !.rf.mode = "tx", !.rf.rx = "none",
                            !.rf.tx = "pre", !.rf.air = << >>]),
           e.pkt, Len(e.pkt))
    [] e.op = "rx_failed" ->
         rf1a_cb_rx_failed(Driver([w EXCEPT !.rf.rx = "none", !.rf.air = << >>]))
    [] e.op = "tx_started" ->
         rf1a_cb_tx_started(Driver([w EXCEPT !.rf.tx = "sending"]), ts)
    [] e.op = "tx_ended" ->
         rf1a_cb_tx_ended(Driver([w EXCEPT !.rf.mode = "rx", !.rf.tx = "none"]))
    [] e.op = "rx_tx_error" ->
         rf1a_cb_rx_tx_error(
           Driver([w EXCEPT !.rf.rx = "none", !.rf.tx = "none", !.rf.air = << >>]))
    [] e.op = "timeout_expired" ->
         timeout_expired([w EXCEPT !.rt.pending = FALSE], w.rt.time)

\* the decision of process_glossy_header on the frame of event e
Decision(w, e) ==
  CASE e.op = "header_received" ->
         process_glossy_header(w, e.pkt, Len(e.pkt), 0).ok
    [] e.op = "rx_ended" ->
         process_glossy_header(rx_ended_stats(rtimer_ext_update_enable(w)),
                               e.pkt, Len(e.pkt), 1).ok
    [] OTHER -> 0

TwinDid(a, b, phase, ok) ==
  /\ twin' = [a |-> [a EXCEPT !.cmds = << >>], b |-> [b EXCEPT !.cmds = << >>],
              phase |-> phase, ok |-> ok]
  /\ UNCHANGED <<nodeVars, net>>

\* node b starts the flood of its past
TwinPastStart ==
  /\ twin.phase = "past"
  /\ twin.b.flood.n = 0
  /\ \E x \in TwinArgs :
       TwinDid(twin.a,
               glossy_start(twin.b, x.initiator_id, x.buf, x.payload_len,
                            x.n_tx_max, x.with_sync, 0, TwinPastTime),
               "past", <<0, 0>>)

\* an event of node b's past
TwinPast ==
  /\ twin.phase = "past"
  /\ twin.b.flood.n = 1
  /\ \E e \in Events(twin.b, TwinPastTime) :
       TwinDid(twin.a, Do(twin.b, e, TwinPastTime), "past", <<0, 0>>)

\* both nodes are started with the same arguments
TwinStart ==
  /\ twin.phase = "past"
  /\ twin.b.g.active = 0
  /\ \E x \in TwinArgs :
       TwinDid(glossy_start(twin.a, x.initiator_id, x.buf, x.payload_len,
                            x.n_tx_max, x.with_sync, 0, TwinTime),
               glossy_start(twin.b, x.initiator_id, x.buf, x.payload_len,
                            x.n_tx_max, x.with_sync, 0, TwinTime),
               "flood", <<0, 0>>)

\* the same event is delivered to both nodes
TwinEvent ==
  /\ twin.phase = "flood"
  /\ \E e \in Events(twin.a, TwinTime) :
       TwinDid(Do(twin.a, e, TwinTime), Do(twin.b, e, TwinTime), "flood",
               <<Decision(twin.a, e), Decision(twin.b, e)>>)

NextTwin == TwinPastStart \/ TwinPast \/ TwinStart \/ TwinEvent

SpecTwin == Init /\ [][NextTwin]_vars

(***************************************************************************)
(* Properties                                                              *)
(***************************************************************************)
Issued(cs, c) == \E i \in DOMAIN cs : cs[i] = c

RadioCallbacks ==
  {"rx_started", "tx_started", "header_received", "rx_ended", "tx_ended",
   "rx_failed", "rx_tx_error"}

\* the results of a flood and its timing estimate
FloodState(gg, p) ==
  <<gg.n_rx, gg.n_tx, gg.header, gg.payload_len, gg.t_ref, gg.t_ref_updated,
    gg.relay_cnt_t_ref, gg.T_slot_sum, gg.n_T_slot, p>>

\* the flood was started with a known bound on the transmissions
StartedBounded == GET_N_TX_MAX(SET_PKT_TYPE(0, flood.n_tx_max)) > 0

\* a step in which glossy_stop ends the active flood
FloodStops == g.active # 0 /\ g'.active = 0

\* C1: while no flood is active, a radio callback delivered late leaves
\* n_rx, n_tx, the header, payload_len, t_ref, t_ref_updated,
\* relay_cnt_t_ref, T_slot_sum, n_T_slot and the payload buffer as they
\* were and issues no radio or timer command.
C1_LateCallbacksIgnored ==
  [][ (g.active = 0 /\ last'.op \in RadioCallbacks)
        => (FloodState(g', payload') = FloodState(g, payload) /\ cmds' = << >>) ]_vars

\* C2: glossy_stop called while no flood is active changes nothing, issues no
\* radio or timer command and returns the n_rx of the last flood.
C2_StopIdempotent ==
  [][ (g.active = 0 /\ last'.op = "glossy_stop")
        => /\ g' = g /\ payload' = payload /\ rf' = rf /\ rt' = rt /\ irq' = irq
           /\ cmds' = << >>
           /\ ret' = g.n_rx ]_vars

C2_Witness ==
  /\ last.op = "glossy_stop" /\ cmds = << >> /\ flood.n > 0
  /\ g.t_ref_updated = 1 /\ g.relay_cnt_t_ref > 0
  /\ g.n_rx > 0 /\ ret = g.n_rx

\* C3: when glossy_stop ends an active flood (called by the application or
\* from inside tx_ended or rx_ended) the flood is inactive, the timeout timer
\* is cancelled, both FIFOs are flushed, the radio sleeps, the Glossy
\* interrupts and the timer update interrupt are enabled, and the value
\* returned is n_rx as it was when glossy_stop was called.
C3_StopEndsFlood ==
  [][ FloodStops
        => /\ ~ rt'.pending /\ Issued(cmds', "rtimer_ext_stop")
           /\ Issued(cmds', "rf1a_flush_rx_fifo")
           /\ Issued(cmds', "rf1a_flush_tx_fifo") /\ rf'.txfifo = << >>
           /\ Issued(cmds', "rf1a_go_to_sleep") /\ rf'.asleep
           /\ irq'.glossy /\ irq'.update
           /\ ret' = g.n_rx ]_vars

C3_Witness ==
  /\ last.op = "rx_ended" /\ g.active = 0 /\ Issued(cmds, "rf1a_go_to_sleep")
  /\ g.n_rx = ret + 1

C6_RxAtMostMax ==
  [][ (FloodStops /\ StartedBounded)
        => g'.n_rx <= GET_N_TX_MAX(g'.header.pkt_type) ]_vars

\* an accepted packet with a relay counter is written to the TX FIFO
RelayWritten ==
  /\ last'.op = "rx_ended" /\ last'.ok = 1
  /\ Issued(cmds', "rf1a_write_to_tx_fifo")
  /\ GET_SYNC(g'.header.pkt_type) # 0

\* C7 as written: the relay counter written to the TX FIFO for the
\* retransmission is the received relay counter + 1, for every received
\* value 0..255.
C7_RelayCntPlusOne ==
  [][ RelayWritten => rf'.txfifo[2] = rf.air[2] + 1 ]_vars

\* C7 amended: the relay counter written to the TX FIFO is the received
\* relay counter + 1 modulo 256; a received 255 is relayed as 0.
C7_RelayCntPlusOneMod256 ==
  [][ RelayWritten => rf'.txfifo[2] = (rf.air[2] + 1) % 256 ]_vars

C7_Witness ==
  /\ last.op = "rx_ended" /\ last.ok = 1 /\ g.active # 0
  /\ Issued(cmds, "rf1a_write_to_tx_fifo")
  /\ GET_SYNC(g.header.pkt_type) # 0
  /\ rf.txfifo[2] = 0

\* C8: on a receiver the payload buffer handed to glossy_start is written at
\* most once per flood, also in a flood with more than 255 receptions.
C8_BufferWrittenOnce == flood.writes <= 1

\* C9: on a receiver, at any point of a flood, the payload buffer has been
\* written exactly when n_rx >= 1, and then its contents and payload_len are
\* those of the first accepted packet.
C9_BufferHoldsFirstPacket ==
  (flood.n > 0 /\ g.initiator_id # node_id)
    => /\ (flood.writes >= 1) <=> (g.n_rx >= 1)
       /\ flood.writes >= 1
            => /\ g.payload_len = Len(flood.first[1])
               /\ Take(payload, g.payload_len) = flood.first[1]

\* C10: a packet whose reported length exceeds GLOSSY_MAX_PACKET_LEN is never
\* accepted at rx_ended, also when header_received accepted its header
\* before: n_rx, the header, payload_len and the payload buffer stay as they
\* were, nothing is written to the TX FIFO, and in an active flood the RX
\* FIFO is flushed and the reception restarted.
C10_OversizeRejected ==
  [][ (last'.op = "rx_ended" /\ last'.pkt_len > GLOSSY_MAX_PACKET_LEN)
        => /\ last'.ok = 0
           /\ g'.n_rx = g.n_rx /\ g'.header = g.header
           /\ g'.payload_len = g.payload_len /\ payload' = payload
           /\ ~ Issued(cmds', "rf1a_write_to_tx_fifo")
           /\ g.active # 0
                => /\ cmds' = <<"rf1a_flush_rx_fifo", "rf1a_start_rx">>
                   /\ rf'.mode = "rx" ]_vars

C10_Witness ==
  /\ last.op = "rx_ended" /\ last.pkt_len > GLOSSY_MAX_PACKET_LEN
  /\ g.header_ok = 1 /\ g.active # 0 /\ rf.mode = "rx"

\* C11: glossy_start on the initiator with payload_len + header_len >
\* GLOSSY_MAX_PACKET_LEN calls glossy_stop and returns: no transmission is
\* started, nothing is written to the TX FIFO, and on return the flood is
\* inactive, the radio asleep, the interrupts enabled, n_rx = 0 and n_tx = 0.
C11_OversizeStartStops ==
  [][ (/\ last'.op = "glossy_start"
       /\ g'.initiator_id = node_id
       /\ g'.payload_len + (IF GET_SYNC(g'.header.pkt_type) # 0 THEN 2 ELSE 1)
            > GLOSSY_MAX_PACKET_LEN)
        => /\ ~ Issued(cmds', "rf1a_start_tx")
           /\ ~ Issued(cmds', "rf1a_write_to_tx_fifo") /\ rf'.txfifo = << >>
           /\ g'.active = 0 /\ rf'.asleep /\ Issued(cmds', "rf1a_go_to_sleep")
           /\ irq'.glossy /\ irq'.update
           /\ g'.n_rx = 0 /\ g'.n_tx = 0 /\ ret' = 0 ]_vars

C11_Witness ==
  /\ last.op = "glossy_start" /\ g.initiator_id = node_id
  /\ g.payload_len = 3 /\ GET_SYNC(g.header.pkt_type) # 0
  /\ g.active = 0 /\ rf.asleep

\* C12: in a flood with with_sync set, when glossy_stop ends the flood (called
\* by the application, in tx_ended or inside rx_ended) and at least one
\* packet has been received (n_rx >= 1), t_ref_updated is set.
C12_SyncRxSetsTRef ==
  [][ (FloodStops /\ GET_SYNC(g'.header.pkt_type) # 0 /\ g'.n_rx >= 1)
        => g'.t_ref_updated = 1 ]_vars

\* the flood is stopped inside rx_ended on a node that has received
C12_Witness ==
  /\ last.op = "rx_ended" /\ Issued(cmds, "rf1a_go_to_sleep")
  /\ g.active = 0 /\ GET_SYNC(g.header.pkt_type) # 0
  /\ g.n_rx >= 1 /\ g.t_ref_updated = 1

\* C17: a retransmission-timeout callback that fires while no flood is active
\* starts no transmission, writes nothing to the TX FIFO, leaves
\* header.relay_cnt, relay_cnt_timeout and t_timeout as they were and does
\* not reschedule itself; and no step (a tx_ended delivered after the stop
\* included) leaves the timeout pending for an inactive flood.
C17_InactiveTimeoutIgnored ==
  [][ /\ (g.active = 0 /\ last'.op = "timeout_expired")
           => /\ cmds' = << >> /\ rf'.txfifo = rf.txfifo
              /\ g'.header.relay_cnt = g.header.relay_cnt
              /\ g'.relay_cnt_timeout = g.relay_cnt_timeout
              /\ g'.t_timeout = g.t_timeout
              /\ ~ rt'.pending
      /\ (g'.active = 0 => ~ rt'.pending) ]_vars

\* the amount by which glossy_stop moves t_ref back, for timing fields gg
BackProjection(gg) ==
  IF gg.n_T_slot > 0
  THEN (gg.relay_cnt_t_ref * gg.T_slot_sum) \div gg.n_T_slot
  ELSE gg.relay_cnt_t_ref * gg.T_slot_estimated

\* the timing fields as they are when glossy_stop is called in a step that
\* ends the flood: tx_ended has run its synchronisation part before the call,
\* rx_ended runs it after the call
AtStopCall ==
  IF last'.op = "tx_ended"
  THEN [g' EXCEPT !.t_ref = IF g.t_ref_updated # 0 THEN g.t_ref ELSE g'.t_tx_start]
  ELSE g

\* C13: when glossy_stop ends an active flood with t_ref_updated set, t_ref is
\* decreased once by relay_cnt_t_ref * T_slot_sum / n_T_slot if n_T_slot > 0
\* and by relay_cnt_t_ref * T_slot_estimated otherwise, so that it is the
\* captured reference minus relay_cnt_t_ref slot lengths; with t_ref_updated
\* not set t_ref is left as it was, and a glossy_stop on the stopped flood
\* does not decrease it again.
C13_TRefBackProjectedOnce ==
  [][ /\ (FloodStops /\ AtStopCall.t_ref_updated # 0)
           => g'.t_ref = AtStopCall.t_ref - BackProjection(AtStopCall)
      /\ (FloodStops /\ AtStopCall.t_ref_updated = 0) => g'.t_ref = g.t_ref
      /\ (g.active = 0 /\ last'.op = "glossy_stop") => g'.t_ref = g.t_ref ]_vars

\* a receiver whose first reception had relay counter 4 and that measured one
\* slot of 1588 ticks has been stopped: t_ref is 100000 - 13 - 4 * 1588
C13_Witness ==
  /\ g.active = 0 /\ g.t_ref_updated = 1 /\ g.relay_cnt_t_ref = 4
  /\ g.n_T_slot = 1 /\ g.T_slot_sum = 1588
  /\ g.t_rx_start = 100000
  /\ g.t_ref = 100000 - NS_TO_RTIMER_EXT_HF(TAU1) - 6352

\* C14: a receiver in a flood with n_tx_max = 0 never stops the flood by
\* itself, whatever the number of receptions and transmissions (more than 255
\* completed transmissions included): the flood is active until glossy_stop
\* is called by the application.
C14_UnboundedReceiverKeepsRelaying ==
  [][ (/\ FloodStops
       /\ g'.initiator_id # node_id
       /\ GET_N_TX_MAX(g'.header.pkt_type) = 0)
        => last'.op = "glossy_stop" ]_vars

C18_CrcOkAtMostPackets == g.stats.pkt_cnt_crcok <= g.stats.pkt_cnt

\* C19: in every reachable state flood_cnt_success <= flood_cnt: a flood
\* counted as successful is also counted as a flood, whatever the number of
\* rx_started events in the flood and the order of the callbacks.
C19_SuccessAtMostFloods == g.stats.flood_cnt_success <= g.stats.flood_cnt

\* C20: in every reachable state glossy_get_per() and glossy_get_fsr() return
\* a value in 0..10000; with pkt_cnt = 0 per is 0 and with flood_cnt = 0 fsr
\* is 10000.
C20_RatesInRange ==
  /\ glossy_get_per(World) \in 0..10000
  /\ glossy_get_fsr(World) \in 0..10000
  /\ g.stats.pkt_cnt = 0 => glossy_get_per(World) = 0
  /\ g.stats.flood_cnt = 0 => glossy_get_fsr(World) = 10000

\* every node of the network has ended the flood
NetDone ==
  /\ net.phase # "off"
  /\ \A i \in Nodes :
       /\ net.node[i].flood.n = 1
       /\ net.node[i].g.active = 0
       /\ net.node[i].g.n_tx = net.n_tx_max
       /\ i # 1 => Take(net.node[i].payload, net.node[i].g.payload_len)
                     = InitiatorPayload
       /\ net.with_sync # 0 => net.node[i].g.t_ref_updated = 1

\* nothing is left to happen in the network: every node has been started, no
\* radio sends, receives or is about to send, and no timer is pending
NetQuiet == net.phase # "off" /\ ~ PhaseBusy /\ ~ Live

\* C15: in a connected network over lossless links, a flood started by one
\* initiator with a known n_tx_max in 1..15 ends on every node without a call
\* of glossy_stop by the application: when nothing is left to happen in the
\* network, every node is inactive with n_tx = n_tx_max, every receiver's
\* buffer holds the initiator's payload and, with sync, every node has
\* t_ref_updated set (no node is left waiting in an unfinished flood).
C15_NetworkFloodTerminates == NetQuiet => NetDone

\* a step other than glossy_reset_stats leaves gg's global counters at least
\* as high as they were
StatsKept(gg, hh) ==
  /\ hh.stats.pkt_cnt >= gg.stats.pkt_cnt
  /\ hh.stats.pkt_cnt_crcok >= gg.stats.pkt_cnt_crcok
  /\ hh.stats.flood_cnt >= gg.stats.flood_cnt
  /\ hh.stats.flood_cnt_success >= gg.stats.flood_cnt_success
  /\ hh.stats.error_cnt >= gg.stats.error_cnt

\* C21: the global statistics pkt_cnt, pkt_cnt_crcok, flood_cnt,
\* flood_cnt_success and error_cnt are never decreased or cleared by
\* glossy_start, glossy_stop, a radio callback or the timeout; only
\* glossy_reset_stats sets them to 0, and it changes nothing else (the
\* per-flood state, active, t_ref, n_rx, n_tx, the buffer, the radio, the
\* timer and the interrupts are as before).
C21_StatsOnlyClearedByReset ==
  [][ /\ last'.op # "glossy_reset_stats" => StatsKept(g, g')
      /\ last'.op = "glossy_reset_stats"
           => /\ g' = [g EXCEPT !.stats.pkt_cnt = 0, !.stats.pkt_cnt_crcok = 0,
                                !.stats.flood_cnt = 0,
                                !.stats.flood_cnt_success = 0,
                                !.stats.error_cnt = 0]
              /\ payload' = payload /\ rf' = rf /\ rt' = rt /\ irq' = irq
              /\ ret' = ret /\ cmds' = << >> ]_vars

\* a second flood has been started and is running with the counters of the
\* first flood still in place
C21_Witness ==
  /\ flood.n = 2 /\ g.active # 0 /\ last.op = "rx_ended"
  /\ g.stats.pkt_cnt = 2 /\ g.stats.pkt_cnt_crcok = 2
  /\ g.stats.flood_cnt = 1 /\ g.stats.flood_cnt_success = 1
  /\ g.stats.error_cnt = 1

\* what the application and the other nodes see of a flood on a node in
\* world w: the counters, the payload buffer and the writes to it, the
\* header with the relay counter that is written to the TX FIFO, the radio
\* and the time reference
Outcome(w) ==
  <<w.g.active, w.g.n_rx, w.g.n_tx, w.payload, w.flood.writes, w.g.header,
    w.rf.mode, w.g.t_ref_updated, w.g.t_ref>>

\* C22: the outcome of a flood depends only on the arguments of glossy_start
\* and on the events delivered after it, not on the flood before: two nodes
\* with different pasts that are started with the same arguments and get the
\* same callbacks, stops and timer expiries take the same accept / reject
\* decision on every packet and have the same n_rx, n_tx, payload buffer,
\* relay counter for the TX FIFO, t_ref_updated and t_ref.
C22_FloodIndependentOfPast ==
  twin.phase = "flood"
    => (twin.ok[1] = twin.ok[2] /\ Outcome(twin.a) = Outcome(twin.b))

\* a receiver that has learned nothing yet and was started without the sync
\* bit does not know whether the flood uses sync (a 1-bit field has no value
\* of its own for "unknown")
SyncUnknown(gg) ==
  gg.initiator_id # node_id /\ gg.n_rx = 0 /\ GET_SYNC(gg.header.pkt_type) = 0

\* the four conditions on a frame pkt of reported length len, for a node
\* with state gg; the header is 2 bytes long when the frame's sync bit is set
HeaderValid(gg, pkt, len) ==
  /\ GET_COMMON_HEADER(pkt[1]) = GLOSSY_COMMON_HEADER
  /\ SyncUnknown(gg) \/ GET_SYNC(pkt[1]) = GET_SYNC(gg.header.pkt_type)
  /\ \/ GET_N_TX_MAX(gg.header.pkt_type) = GLOSSY_UNKNOWN_N_TX_MAX
     \/ GET_N_TX_MAX(pkt[1]) = GET_N_TX_MAX(gg.header.pkt_type)
  /\ \/ gg.payload_len = GLOSSY_UNKNOWN_PAYLOAD_LEN
     \/ len - (IF GET_SYNC(pkt[1]) # 0 THEN 2 ELSE 1) = gg.payload_len
  /\ len <= GLOSSY_MAX_PACKET_LEN

\* C23: the validation of a packet whose header has not been accepted yet
\* succeeds exactly when the tag is the configured one, the sync bit equals
\* the local one unless that is unknown, n_tx_max equals the local one unless
\* that is unknown, the payload length equals the local one unless that is
\* unknown, and the packet is not longer than GLOSSY_MAX_PACKET_LEN; a
\* receiver that does not know whether the flood uses sync accepts both
\* values of the sync bit.
C23_HeaderValidation ==
  [][ (last'.op \in {"header_received", "rx_ended"} /\ g.header_ok = 0)
        => (last'.ok = 1 <=> HeaderValid(g, rf.air, last'.pkt_len)) ]_vars

\* C24: after the first successful reception of a flood the header fields
\* hold the received values and are enforced as known, whatever the value
\* learned: a later packet (after a new rx_started) whose n_tx_max or whose
\* payload length differs from the learned one is rejected.
C24_LearnedFieldsEnforced ==
  [][ (/\ last'.op \in {"header_received", "rx_ended"}
       /\ g.header_ok = 0
       /\ g.n_rx >= 1
       /\ \/ GET_N_TX_MAX(rf.air[1]) # GET_N_TX_MAX(g.header.pkt_type)
          \/ last'.pkt_len - (IF GET_SYNC(g.header.pkt_type) # 0 THEN 2 ELSE 1)
               # g.payload_len)
        => last'.ok = 0 ]_vars

\* the slot length measured in a step, if the step measures one: at tx_ended
\* for a transmission that follows a reception, at an accepted rx_ended for
\* a reception that follows a transmission (none: the empty set)
SlotMeasured ==
  IF /\ last'.op = "tx_ended"
     /\ GET_SYNC(g.header.pkt_type) # 0
     /\ g.header.relay_cnt = g.relay_cnt_last_rx + 1
     /\ g.n_rx > 0
  THEN {g.t_tx_start - g.t_rx_start + NS_TO_RTIMER_EXT_HF(TAU1)}
  ELSE IF /\ last'.op = "rx_ended" /\ last'.ok = 1
          /\ GET_SYNC(g'.header.pkt_type) # 0
          /\ g'.relay_cnt_last_rx = g.relay_cnt_last_tx + 1
          /\ g.n_tx > 0
       THEN {g.t_rx_start - g.t_tx_start - NS_TO_RTIMER_EXT_HF(TAU1)}
       ELSE {}

\* the step adds a measurement m to T_slot_sum and n_T_slot
SlotAdded(m) == g'.n_T_slot = g.n_T_slot + 1 /\ g'.T_slot_sum = g.T_slot_sum + m

\* C25: every measurement m added to T_slot_sum / n_T_slot is within
\* T_SLOT_TOLERANCE of T_slot_estimated, whatever value T_slot_estimated has
\* when the measurement is taken (values below the tolerance included); a
\* measurement of T_slot_estimated + 3 is accepted and one of
\* T_slot_estimated + 30 is discarded.
C25_MeasurementWithinTolerance ==
  [][ /\ (last'.op \in {"tx_ended", "rx_ended"} /\ g'.n_T_slot # g.n_T_slot)
           => /\ g'.T_slot_sum - g.T_slot_sum - g'.T_slot_estimated <= T_SLOT_TOLERANCE
              /\ g'.T_slot_estimated - (g'.T_slot_sum - g.T_slot_sum) <= T_SLOT_TOLERANCE
      /\ \A m \in SlotMeasured :
           /\ m = g'.T_slot_estimated + 3 => SlotAdded(m)
           /\ m = g'.T_slot_estimated + 30
                => (g'.n_T_slot = g.n_T_slot /\ g'.T_slot_sum = g.T_slot_sum) ]_vars

\* C26: whenever tx_ended schedules the retransmission timeout (on the
\* initiator, with n_rx = 0), T_slot_estimated is the theoretical slot
\* duration of the flood's packet, estimate_T_slot(header_len + payload_len),
\* a positive number of ticks, and the timer is set two slot lengths after
\* t_timeout, strictly later than t_timeout.
C26_TimeoutTwoSlotsAhead ==
  [][ (last'.op = "tx_ended" /\ Issued(cmds', "rtimer_ext_schedule"))
        => /\ g'.T_slot_estimated
                = estimate_T_slot((IF GET_SYNC(g'.header.pkt_type) # 0 THEN 2 ELSE 1)
                                    + g'.payload_len)
           /\ g'.T_slot_estimated > 0
           /\ rt'.pending
           /\ rt'.time = g'.t_timeout + SLOT_TIMEOUT_MIN * g'.T_slot_estimated
           /\ rt'.time > g'.t_timeout ]_vars

\* C27: in a flood with sync, the accepted rx_ended of a node that has no
\* reference time yet (its first event being a reception) sets t_ref =
\* t_rx_start - TAU1, relay_cnt_t_ref = the received relay counter,
\* t_ref_updated = 1 and T_slot_estimated = the estimate for the length of
\* the packet; after that no rx_ended or tx_ended changes relay_cnt_t_ref, or
\* t_ref unless glossy_stop ends the flood in that step and back-projects it.
C27_FirstRxSetsTRefOnce ==
  [][ /\ (/\ last'.op = "rx_ended" /\ last'.ok = 1
          /\ GET_SYNC(g'.header.pkt_type) # 0
          /\ g.t_ref_updated = 0)
           => /\ g'.t_ref = g.t_rx_start - NS_TO_RTIMER_EXT_HF(TAU1)
              /\ g'.relay_cnt_t_ref = rf.air[2]
              /\ g'.t_ref_updated = 1
              /\ g'.T_slot_estimated = estimate_T_slot(last'.pkt_len)
      /\ (last'.op \in {"rx_ended", "tx_ended"} /\ g.t_ref_updated = 1)
           => /\ g'.relay_cnt_t_ref = g.relay_cnt_t_ref
              /\ g'.t_ref_updated = 1
              /\ ~ FloodStops => g'.t_ref = g.t_ref ]_vars

\* a receiver has accepted a second packet, 1575 ticks after the first and
\* with another relay counter, and then sent: its reference is that of the
\* first packet
C27_Witness ==
  /\ last.op = "tx_ended" /\ g.active # 0 /\ g.initiator_id # node_id
  /\ g.n_rx = 2 /\ g.n_tx = 1 /\ g.t_ref_updated = 1
  /\ g.t_rx_start = 101575 /\ g.relay_cnt_last_rx = 4
  /\ g.t_ref = 100000 - NS_TO_RTIMER_EXT_HF(TAU1) /\ g.relay_cnt_t_ref = 1
  /\ g.T_slot_estimated = estimate_T_slot(3)

SlotKept == g'.n_T_slot = g.n_T_slot /\ g'.T_slot_sum = g.T_slot_sum

\* a measured slot length the tolerance filter lets through
SlotInTolerance(m) ==
  /\ g'.T_slot_estimated >= T_SLOT_TOLERANCE
  /\ m > g'.T_slot_estimated - T_SLOT_TOLERANCE
  /\ m < g'.T_slot_estimated + T_SLOT_TOLERANCE

\* C29: in a sync flood, tx_ended takes a slot measurement iff the relay
\* counter of the transmission is relay_cnt_last_rx + 1 and n_rx > 0, its
\* value being t_tx_start - t_rx_start + TAU1; an accepted rx_ended takes one
\* iff the received relay counter is relay_cnt_last_tx + 1 and n_tx > 0, its
\* value being t_rx_start - t_tx_start - TAU1.  A measurement taken is added
\* to T_slot_sum / n_T_slot if it is within the tolerance and nothing else is
\* ever added: not at a transmission or reception whose relay counter does
\* not follow that of its counterpart (a transmission started by the
\* timeout, a reception after a missed slot), not without sync, and not in
\* any other step.
C29_SlotMeasuredAfterCounterpart ==
  [][ /\ \A m \in SlotMeasured :
           /\ SlotKept \/ SlotAdded(m)
           /\ SlotInTolerance(m) => SlotAdded(m)
      /\ (SlotMeasured = {} /\ last'.op # "glossy_start") => SlotKept
      /\ (last'.op = "tx_ended" /\ GET_SYNC(g.header.pkt_type) # 0)
           => g'.relay_cnt_last_tx = g.header.relay_cnt
      /\ (/\ last'.op = "timeout_expired" /\ Issued(cmds', "rf1a_start_tx")
          /\ flood.n = 1)
           => ~ (g'.header.relay_cnt = g'.relay_cnt_last_rx + 1 /\ g'.n_rx > 0) ]_vars

\* a receiver has measured two slots: 1575 + 13 ticks from its reception to
\* its transmission, 1600 - 13 ticks from that transmission to the reception
\* of the packet with the next relay counter
C29_Witness ==
  /\ last.op = "rx_ended" /\ last.ok = 1 /\ g.initiator_id # node_id
  /\ g.n_rx = 2 /\ g.n_tx = 1
  /\ g.relay_cnt_last_tx = 2 /\ g.relay_cnt_last_rx = 3
  /\ g.t_tx_start = 101575 /\ g.t_rx_start = 103175
  /\ g.n_T_slot = 2 /\ g.T_slot_sum = 1588 + 1587

\* C30: when the retransmission timeout expires and the radio is not busy,
\* timeout_expired starts a transmission, sets the relay counter of the
\* header to relay_cnt_timeout, writes header and payload to the TX FIFO,
\* sets t_timeout to the expiry tick and leaves the timer unscheduled; when
\* the radio is busy it postpones instead: relay_cnt_timeout + 1 (8 bit),
\* timer rescheduled, header and TX FIFO untouched.  In a flood with relay
\* counter, relay_cnt_timeout is set by the tx_ended that schedules the
\* timeout, to the relay counter of the transmission just ended + 2 (8 bit).
C30_TimeoutRetransmits ==
  [][ /\ (last'.op = "timeout_expired" /\ ~ rf1a_is_busy(World))
           => /\ Issued(cmds', "rf1a_start_tx") /\ rf'.mode = "tx"
              /\ g'.header = [g.header EXCEPT !.relay_cnt = g.relay_cnt_timeout]
              /\ Issued(cmds', "rf1a_write_to_tx_fifo")
              /\ rf'.txfifo
                   = (IF GET_SYNC(g.header.pkt_type) # 0
                      THEN <<g.header.pkt_type, g.relay_cnt_timeout>>
                      ELSE <<g.header.pkt_type>>)
                       \o Take(payload, g.payload_len)
              /\ g'.t_timeout = rt.time
              /\ g'.relay_cnt_timeout = g.relay_cnt_timeout
              /\ ~ rt'.pending /\ ~ Issued(cmds', "rtimer_ext_schedule")
      /\ (last'.op = "timeout_expired" /\ rf1a_is_busy(World))
           => /\ g'.relay_cnt_timeout = U8(g.relay_cnt_timeout + 1)
              /\ rt'.pending /\ rt'.time = rt.time + g.T_slot_estimated
              /\ g'.header = g.header /\ rf' = rf /\ g'.t_timeout = g.t_timeout
      /\ (/\ last'.op = "tx_ended" /\ Issued(cmds', "rtimer_ext_schedule")
          /\ GET_SYNC(g.header.pkt_type) # 0)
           => /\ g'.relay_cnt_timeout = U8(g.header.relay_cnt + SLOT_TIMEOUT_MIN)
              /\ g'.header.relay_cnt = g.header.relay_cnt ]_vars

\* the initiator of a sync flood has sent with relay counter 0, the timeout
\* has expired and the packet is in the TX FIFO again with relay counter 2
C30_Witness ==
  /\ last.op = "timeout_expired" /\ g.active # 0 /\ g.initiator_id = node_id
  /\ GET_SYNC(g.header.pkt_type) # 0 /\ flood.n = 1
  /\ g.n_tx = 1 /\ g.n_rx = 0 /\ g.relay_cnt_last_tx = 0
  /\ g.header.relay_cnt = 2 /\ g.relay_cnt_timeout = 2
  /\ rf.mode = "tx" /\ rf.txfifo = <<g.header.pkt_type, 2, 65>>
  /\ ~ rt.pending

C32_RxStartedCancelsTimeout ==
  [][ /\ (last'.op = "rx_started" /\ g.initiator_id = node_id) => ~ rt'.pending
      /\ (g'.initiator_id = node_id /\ ~ rt.pending /\ rt'.pending)
           => last'.op = "tx_ended"
      /\ (g'.initiator_id # node_id /\ flood'.n >= 1)
           => (~ rt'.pending /\ ~ Issued(cmds', "rtimer_ext_schedule")) ]_vars

\* C33: whenever the initiator's flood is active, a transmission has
\* completed, nothing has been received (n_rx = 0) and the radio listens
\* with no reception or transmission in progress, a retransmission timeout
\* is pending.
C33_InitiatorTimeoutPending ==
  (/\ g.active # 0 /\ g.initiator_id = node_id
   /\ g.n_tx >= 1 /\ g.n_rx = 0
   /\ ~ rf.asleep /\ rf.mode = "rx" /\ rf.rx = "none" /\ rf.tx = "none")
    => rt.pending

\* C34: rx_tx_error increments error_cnt by exactly 1 and enables the
\* timer-update interrupt; if the flood is active it flushes the RX FIFO and
\* the TX FIFO and restarts RX, if not it issues no radio command.  Nothing
\* else of the state changes: n_rx, n_tx, the header, t_ref and the payload
\* buffer are as before.
C34_RxTxErrorRestartsRx ==
  [][ last'.op = "rx_tx_error"
        => /\ g'.stats.error_cnt = g.stats.error_cnt + 1
           /\ g' = [g EXCEPT !.stats.error_cnt = @ + 1]
           /\ payload' = payload
           /\ irq'.update /\ irq'.glossy = irq.glossy
           /\ rt' = rt
           /\ IF g.active # 0
              THEN /\ cmds' = <<"rf1a_flush_rx_fifo", "rf1a_flush_tx_fifo",
                                "rf1a_start_rx">>
                   /\ ~ rf'.asleep /\ rf'.mode = "rx" /\ rf'.rx = "none"
                   /\ rf'.txfifo = << >>
              ELSE /\ cmds' = << >>
                   /\ rf'.asleep = rf.asleep /\ rf'.txfifo = rf.txfifo ]_vars

\* a receiver has accepted a packet and written it to the TX FIFO for the
\* retransmission, and the error has interrupted it: the radio listens again
\* with an empty TX FIFO
C34_Witness ==
  /\ last.op = "rx_tx_error" /\ g.active # 0 /\ g.initiator_id # node_id
  /\ g.stats.error_cnt = 1 /\ g.n_rx = 1 /\ g.n_tx = 0
  /\ rf.mode = "rx" /\ rf.txfifo = << >> /\ irq.update

\* the step reports the failure of the packet being received: a header
\* rejected by header_received or by rx_ended, or a CRC error (rx_failed)
RxFails ==
  \/ last'.op = "rx_failed"
  \/ last'.op \in {"header_received", "rx_ended"} /\ last'.ok = 0

\* C35: a packet that fails header validation or the CRC is counted exactly
\* once in last_flood_n_rx_fail, however many failure reports follow its
\* rx_started: a failing step adds 1 if the packet is not counted yet
\* (already_counted = 0) and nothing if it is, and leaves already_counted
\* set; only rx_started (and glossy_start) clears already_counted, and no
\* other step changes the counter.  The failed packet leaves n_rx, the
\* header, payload_len and the payload buffer as they were; while the flood
\* is active the RX FIFO is flushed and RX is restarted.
C35_RxFailCountedOnce ==
  [][ /\ RxFails
           => /\ g'.stats.already_counted = 1
              /\ g'.stats.last_flood_n_rx_fail
                   = g.stats.last_flood_n_rx_fail
                       + (IF g.stats.already_counted = 0 THEN 1 ELSE 0)
              /\ g'.n_rx = g.n_rx /\ g'.header = g.header
              /\ g'.payload_len = g.payload_len /\ payload' = payload
              /\ g.active # 0
                   => /\ g.stats.already_counted = 0
                      /\ Issued(cmds', "rf1a_flush_rx_fifo")
                      /\ Issued(cmds', "rf1a_start_rx")
                      /\ rf'.mode = "rx" /\ rf'.rx = "none"
      /\ (~ RxFails /\ last'.op # "glossy_start")
           => g'.stats.last_flood_n_rx_fail = g.stats.last_flood_n_rx_fail
      /\ (g'.stats.already_counted = 0 /\ g.stats.already_counted = 1)
           => last'.op \in {"rx_started", "glossy_start"} ]_vars

\* a receiver has seen a packet fail its CRC and then accepted a good one
C35_Witness ==
  /\ last.op = "rx_ended" /\ last.ok = 1 /\ g.active # 0
  /\ g.initiator_id # node_id
  /\ g.stats.last_flood_n_rx_started = 2
  /\ g.stats.last_flood_n_rx_fail = 1 /\ g.n_rx = 1
  /\ flood.writes = 1

\* C36: flood_cnt and flood_cnt_success are changed only by the glossy_stop
\* that ends a flood on a node that is not the initiator (and cleared by
\* glossy_reset_stats): that stop adds 1 to flood_cnt iff an rx_started was
\* seen in the flood (in the node's first flood and without a reset: iff
\* pkt_cnt > 0) and 1 to flood_cnt_success iff n_rx # 0; a flood of the
\* initiator changes neither.
C36_FloodCountersByReceiverStop ==
  [][ /\ (FloodStops /\ g.initiator_id # node_id /\ flood.n = 1)
           => /\ g'.stats.flood_cnt
                   = g.stats.flood_cnt + (IF g.stats.pkt_cnt > 0 THEN 1 ELSE 0)
              /\ g'.stats.flood_cnt_success
                   = g.stats.flood_cnt_success + (IF g.n_rx # 0 THEN 1 ELSE 0)
      /\ (~ (FloodStops /\ g.initiator_id # node_id)
          /\ last'.op # "glossy_reset_stats")
           => /\ g'.stats.flood_cnt = g.stats.flood_cnt
              /\ g'.stats.flood_cnt_success = g.stats.flood_cnt_success ]_vars


\* C37: the timer-update interrupt is disabled only while a reception is in
\* progress: in every state in which no reception is in progress, and in
\* particular in every state in which no flood is active, it is enabled.
C37_UpdateIrqOffOnlyWhileReceiving ==
  (rf.rx = "none" \/ g.active = 0) => irq.update


\* bitwise operations on bytes, computed bit by bit
BitOf(x, i) == (x \div (2 ^ i)) % 2
RECURSIVE BitwiseFrom(_, _, _, _)
BitwiseFrom(x, y, i, or) ==
  IF i > 7 THEN 0
  ELSE (IF (IF or THEN BitOf(x, i) + BitOf(y, i) > 0
                  ELSE BitOf(x, i) + BitOf(y, i) = 2)
        THEN 2 ^ i ELSE 0)
       + BitwiseFrom(x, y, i + 1, or)
BitwiseAnd(x, y) == BitwiseFrom(x, y, 0, FALSE)
BitwiseOr(x, y) == BitwiseFrom(x, y, 0, TRUE)

\* C38: header byte 0 round-trips: what SET_PKT_TYPE wrote for with_sync in
\* {0, 1} and n_tx_max in 0..15 is the bitwise or of the configured 3-bit
\* tag, the sync bit and n_tx_max; GET_COMMON_HEADER returns the tag,
\* GET_SYNC is non-zero iff with_sync was, GET_N_TX_MAX returns n_tx_max, and
\* the three masks cover bits [7:5], [4] and [3:0] without overlap.
C38_HeaderByteRoundTrips ==
  (net.phase = "macros" /\ last.op # "init")
    => /\ g.header.pkt_type
            = BitwiseOr(BitwiseOr(BitwiseAnd(GLOSSY_CONF_HEADER_BYTE,
                                             GLOSSY_HEADER_BYTE_MASK),
                                  IF net.with_sync # 0
                                  THEN GLOSSY_HEADER_SYNC_MASK ELSE 0),
                        BitwiseAnd(net.n_tx_max, GLOSSY_HEADER_N_TX_MASK))
       /\ last.op = "GET_COMMON_HEADER"
            => /\ ret = BitwiseAnd(g.header.pkt_type, GLOSSY_HEADER_BYTE_MASK)
               /\ ret = BitwiseAnd(GLOSSY_CONF_HEADER_BYTE, GLOSSY_HEADER_BYTE_MASK)
               /\ ret = GLOSSY_COMMON_HEADER
       /\ last.op = "GET_SYNC"
            => /\ ret = BitwiseAnd(g.header.pkt_type, GLOSSY_HEADER_SYNC_MASK)
               /\ (ret # 0) = (net.with_sync # 0)
       /\ last.op = "GET_N_TX_MAX"
            => /\ ret = BitwiseAnd(g.header.pkt_type, GLOSSY_HEADER_N_TX_MASK)
               /\ ret = net.n_tx_max
       /\ BitwiseAnd(GLOSSY_HEADER_BYTE_MASK, GLOSSY_HEADER_SYNC_MASK) = 0
       /\ BitwiseAnd(GLOSSY_HEADER_BYTE_MASK, GLOSSY_HEADER_N_TX_MASK) = 0
       /\ BitwiseAnd(GLOSSY_HEADER_SYNC_MASK, GLOSSY_HEADER_N_TX_MASK) = 0
       /\ \A i \in 0 .. 7 :
            /\ BitOf(GLOSSY_HEADER_BYTE_MASK, i) = (IF i >= 5 THEN 1 ELSE 0)
            /\ BitOf(GLOSSY_HEADER_SYNC_MASK, i) = (IF i = 4 THEN 1 ELSE 0)
            /\ BitOf(GLOSSY_HEADER_N_TX_MASK, i) = (IF i <= 3 THEN 1 ELSE 0)

C38_Witness ==
  /\ net.phase = "macros" /\ net.with_sync = 1 /\ net.n_tx_max = 15
  /\ g.header.pkt_type = 159
  /\ last.op = "GET_SYNC" /\ ret = 16


C40_OpenWindowUnsigned ==
  [][ /\ \A m \in SlotMeasured :
           /\ IF SlotInTolerance(m) THEN SlotAdded(m) ELSE SlotKept
           /\ (\/ m = g'.T_slot_estimated + T_SLOT_TOLERANCE
               \/ m = g'.T_slot_estimated - T_SLOT_TOLERANCE) => SlotKept
           /\ (m = g'.T_slot_estimated + T_SLOT_TOLERANCE - 1
               /\ g'.T_slot_estimated >= T_SLOT_TOLERANCE) => SlotAdded(m)
           /\ (m = g'.T_slot_estimated - T_SLOT_TOLERANCE + 1
               /\ g'.T_slot_estimated >= T_SLOT_TOLERANCE) => SlotAdded(m)
      /\ (g'.T_slot_estimated < T_SLOT_TOLERANCE /\ last'.op # "glossy_start")
           => SlotKept
      /\ g'.T_slot_estimated < T_SLOT_TOLERANCE => g'.n_T_slot = 0 ]_vars

\* a receiver has measured a slot 9 ticks shorter than its estimate
C40_Witness ==
  /\ last.op = "tx_ended" /\ g.initiator_id # node_id /\ flood.n = 1
  /\ g.T_slot_estimated = 1586
  /\ g.t_rx_start = 100000 /\ g.t_tx_start = 101564
  /\ g.n_T_slot = 1 /\ g.T_slot_sum = 1577

====
